---- MODULE Spec2Model ----
(***************************************************************************)
(* Model of the per-job scheduler engine of usvisa-web                     *)
(* (src/scheduler-engine.js, class SchedulerInstance), with the response   *)
(* classification of the HTTP engine kept in src/database.js.              *)
(*                                                                         *)
(* One SchedulerInstance is modelled.  A step of the main flow is the code *)
(* that runs between two awaits (JavaScript runs it to completion), so a   *)
(* stop() can only interleave where the code awaits: a network operation   *)
(* in flight or a timed sleep.                                             *)
(***************************************************************************)
EXTENDS Integers, Sequences, FiniteSets, TLC

\* ---------------------------------------------------------------- bounds
MaxChecks == 2          \* check cycles started in one run
MaxBlockChecks == 5     \* the same, for the runs of SpecBlock
MaxClearChecks == 2     \* SpecBlock: cycles of a run that did not end in a block
MaxFacilities == 2      \* length of config.facilityIds
MaxDates == 2           \* matching dates returned by one open-days fetch

\* ------------------------------------------------------- program constants
BLOCK_COOLDOWNS == <<300000, 900000, 1800000, 3600000>>
MaxBookDates == 3
MaxBookAttempts == 3
SyncEvery == 5
RateLimitPauseMs == 300000
PartialBlockPauseMs == 8000
FacilityPauseMs == 100
AttemptPauseMs == 500
LoginSettleMs == 2000
ReloginCooldownMs == 300000
ReloginRetryMs == 60000
DefaultMaxRelogin == 5
DefaultIntervalSeconds == 30
MinWaitMs == 3000

Min(a, b) == IF a < b THEN a ELSE b
Max(a, b) == IF a > b THEN a ELSE b

VARIABLES
  config,        \* this.config, loaded by start()
  running,       \* this.running
  health,        \* this.health
  loopPromise,   \* this.loopPromise: "null", "pending" or "resolved"
  sleepTimer,    \* this._sleepTimer is set
  timerPending,  \* the setTimeout of the last sleep() has neither fired nor been cleared
  pc,            \* where the start()/_runLoop()/runCheckCycle() flow is suspended
  sleepRet,      \* what the flow does when the pending sleep resolves
  sleepKind,     \* which sleep() call is pending
  sleepMs,       \* its duration
  loginRet,      \* which call site invoked login()
  cyc,           \* locals of runCheckCycle
  blockCount,    \* local of _runLoop
  result,        \* outcome of the last runCheckCycle ("NONE" while one is running)
  store,         \* the job's row in the database
  stopPc,        \* where stop() is suspended
  hist,          \* history of the current cycle, used to state the properties
  cap,           \* how many check cycles the modelled run may start (bounds)
  fnName,        \* pure-function harness: the function applied
  fnArg,         \* its argument
  fnRes,         \* its result
  retry,         \* the retried transport call in progress
  instances,     \* JobManager.instances: job id -> SchedulerInstance (0: no entry)
  inst,          \* every SchedulerInstance constructed so far
  jobs,          \* the jobs table: stored status and booking fields of each job
  cookies        \* cookie store of sharedBrowser's default context (0: no session)

vars == <<config, running, health, loopPromise, sleepTimer, timerPending, pc,
          sleepRet, sleepKind, sleepMs, loginRet, cyc, blockCount, result,
          store, stopPc, hist, cap, fnName, fnArg, fnRes, retry,
          instances, inst, jobs, cookies>>

flowVars == <<pc, sleepRet, sleepKind, sleepMs, sleepTimer, timerPending>>
fnVars == <<fnName, fnArg, fnRes, retry>>
jmVars == <<instances, inst, jobs, cookies>>

\* ------------------------------------------------------------------------
\* Booking response classification
\* ------------------------------------------------------------------------
\* The marker phrases bookAppointment looks for in the lower-cased page.
ConfirmMarkers == {"successfully scheduled", "successfully booked",
                   "your appointment has been scheduled"}
BodyMarkers == ConfirmMarkers \cup
               {"instructions", "your appointment", "no longer available",
                "no appointment available", "there was a problem",
                "could not be processed", "sign_in", "reschedule appointment",
                "appointments[consulate_appointment][facility_id]"}

\* A page that contains "your appointment has been scheduled" contains
\* "your appointment".
Bodies == {b \in SUBSET BodyMarkers :
             "your appointment has been scheduled" \in b => "your appointment" \in b}

\* What a booking submission can come back with: the final URL, the HTTP
\* status (read by the HTTP engine only) and the page body.
BookResponses == [url : {"/appointment", "/instructions", "/other"},
                  status : {200, 401, 422, 500},
                  body : Bodies]

BookResult(ok, why) == [success |-> ok, verified |-> ok, reason |-> why]

\* bookAppointment with the instructions rule reading the word
\* "instructions" alone as a confirmation.
bookAppointment_mut(resp) ==
  LET has(m) == m \in resp.body
      confirmed == \/ has("successfully scheduled")
                   \/ has("successfully booked")
                   \/ has("your appointment has been scheduled")
                   \/ resp.url = "/instructions"
                   \/ has("instructions")
      formField == \/ has("appointments[consulate_appointment][facility_id]")
                   \/ has("reschedule appointment")
  IN  IF confirmed THEN BookResult(TRUE, "none")
      ELSE IF has("no longer available") \/ has("no appointment available")
        THEN BookResult(FALSE, "Slot no longer available")
      ELSE IF has("there was a problem") \/ has("could not be processed")
        THEN BookResult(FALSE, "Server problem processing booking")
      ELSE IF has("sign_in") THEN BookResult(FALSE, "Session expired during booking")
      ELSE IF formField THEN BookResult(FALSE, "Still on appointment form (booking not processed)")
      ELSE BookResult(FALSE, "Ambiguous response")

\* scheduler-engine.js bookAppointment, step 6: classification of the page
\* shown after the form was submitted.
bookAppointment(resp) ==
  LET has(m) == m \in resp.body
      confirmed == \/ has("successfully scheduled")
                   \/ has("successfully booked")
                   \/ has("your appointment has been scheduled")
                   \/ resp.url = "/instructions"
                   \/ (has("instructions") /\ has("your appointment"))
      formField == \/ has("appointments[consulate_appointment][facility_id]")
                   \/ has("reschedule appointment")
  IN  IF confirmed THEN BookResult(TRUE, "none")
      ELSE IF has("no longer available") \/ has("no appointment available")
        THEN BookResult(FALSE, "Slot no longer available")
      ELSE IF has("there was a problem") \/ has("could not be processed")
        THEN BookResult(FALSE, "Server problem processing booking")
      ELSE IF has("sign_in") THEN BookResult(FALSE, "Session expired during booking")
      ELSE IF formField THEN BookResult(FALSE, "Still on appointment form (booking not processed)")
      ELSE BookResult(FALSE, "Ambiguous response")

\* database.js bookAppointment (HTTP engine): the same classification with
\* the HTTP status and without the instructions-page rule.
bookAppointmentHttp(resp) ==
  LET has(m) == m \in resp.body
      confirmed == \/ has("successfully scheduled")
                   \/ has("successfully booked")
                   \/ has("your appointment has been scheduled")
      formField == \/ has("appointments[consulate_appointment][facility_id]")
                   \/ has("reschedule appointment")
  IN  IF confirmed THEN BookResult(TRUE, "none")
      ELSE IF has("no longer available") \/ has("no appointment available")
        THEN BookResult(FALSE, "Slot no longer available")
      ELSE IF has("there was a problem") \/ has("could not be processed")
        THEN BookResult(FALSE, "Server problem processing booking")
      ELSE IF has("sign_in") THEN BookResult(FALSE, "Session expired during booking")
      ELSE IF resp.status = 422 THEN BookResult(FALSE, "CSRF token expired")
      ELSE IF resp.status \in {401, 403} THEN BookResult(FALSE, "Session expired (status)")
      ELSE IF resp.status \notin 200..299 THEN BookResult(FALSE, "HTTP error")
      ELSE IF formField THEN BookResult(FALSE, "Still on appointment form (booking not processed)")
      ELSE BookResult(FALSE, "Ambiguous response")

\* bookAppointment returns early, before the form is submitted, when the
\* appointment page redirects to sign-in or the form does not load.
EarlyBookResults == {BookResult(FALSE, "Session expired during booking"),
                     BookResult(FALSE, "Appointment form not loaded")}

\* Every result the classification of a submitted form can give.
SubmitResults == {bookAppointment(r) : r \in BookResponses}

\* IsBooked accepting an ambiguous response as a booking.
IsBooked_mut(r) == r.success \/ r.reason = "Ambiguous response"

\* runCheckCycle: `if (result.success && result.verified)`
IsBooked(r) == r.success /\ r.verified

\* runCheckCycle: `result.reason.includes('Session expired')`
IsSessionExpiredReason(r) == r.reason \in {"Session expired during booking",
                                          "Session expired (status)"}

\* ------------------------------------------------------------------------
\* Open-days fetch
\* ------------------------------------------------------------------------
MaxDay == 3
StartDate == 2      \* config.startDate of the modelled job
EndDate == 3        \* config.endDate of the modelled job

DayEntries == [date : 1..MaxDay, business_day : BOOLEAN]
DateLists == UNION {[1..n -> DayEntries] : n \in 0..MaxDates}

RECURSIVE InsertSorted(_, _)
InsertSorted(x, s) ==
  IF s = <<>> THEN <<x>>
  ELSE IF x <= Head(s) THEN <<x>> \o s
  ELSE <<Head(s)>> \o InsertSorted(x, Tail(s))

RECURSIVE SortDates(_)
SortDates(s) == IF s = <<>> THEN <<>> ELSE InsertSorted(Head(s), SortDates(Tail(s)))

\* `d.business_day` of a JavaScript value: undefined (falsy) when the value
\* has no such property, as for a bare date string.
IsBusinessDay(d) == "business_day" \in DOMAIN d /\ d.business_day

\* filterDatesInRange with an exclusive end of the range.
filterDatesInRange_mut(dates) ==
  LET keep == SelectSeq(dates, IsBusinessDay)
      inRange == SelectSeq(keep, LAMBDA d : d.date >= StartDate /\ d.date < EndDate)
  IN  SortDates([k \in 1..Len(inRange) |-> inRange[k].date])

\* filterDatesInRange losing the earliest date of its result.
filterDatesInRange_mutTail(dates) ==
  LET keep == SelectSeq(dates, IsBusinessDay)
      inRange == SelectSeq(keep, LAMBDA d : d.date >= StartDate /\ d.date <= EndDate)
      sorted == SortDates([k \in 1..Len(inRange) |-> inRange[k].date])
  IN  IF sorted = <<>> THEN <<>> ELSE Tail(sorted)

\* filterDatesInRange: business days within [startDate, endDate], sorted.
filterDatesInRange(dates) ==
  LET keep == SelectSeq(dates, IsBusinessDay)
      inRange == SelectSeq(keep, LAMBDA d : d.date >= StartDate /\ d.date <= EndDate)
  IN  SortDates([k \in 1..Len(inRange) |-> inRange[k].date])

\* What the open-days request can come back with: a transport failure after
\* all retries (socket-class or not), or an HTTP response.
DaysResponses ==
  [transport : {"socket", "other"}, status : {0}, json : {"none"}, signin : {FALSE}]
  \cup
  [transport : {"ok"}, status : {200, 401, 403, 422, 429, 500},
   json : {"array", "other", "invalid"}, signin : BOOLEAN]

\* BodyOutcome without the sign_in test in the catch block.
BodyOutcome_mut(resp) ==
  IF resp.json = "array" THEN "OK"
  ELSE IF resp.json = "other"
       THEN (IF resp.signin THEN "SESSION_EXPIRED" ELSE "OK")
       ELSE "PARSE_ERROR"

\* checkDates, the body of a 2xx response: JSON.parse, Array.isArray, and
\* `text.includes('sign_in')` in both the non-array branch and the catch.
BodyOutcome(resp) ==
  IF resp.json = "array" THEN "OK"
  ELSE IF resp.signin THEN "SESSION_EXPIRED"
  ELSE IF resp.json = "other" THEN "OK"
  ELSE "PARSE_ERROR"

\* checkDates: the arrays it can return for a response that is no error:
\* `return data`, or `return []` for JSON that is not an array.
ReturnedLists(resp) == IF resp.json = "array" THEN DateLists ELSE {<<>>}

\* checkDates without the 422 rule: the status falls to the HTTP error rule.
checkDates_mut(resp) ==
  IF resp.transport = "socket" THEN "SOCKET_EXHAUSTED"
  ELSE IF resp.transport = "other" THEN "NETWORK_ERROR"
  ELSE IF resp.status \in {401, 403} THEN "SESSION_EXPIRED"
  ELSE IF resp.status = 429 THEN "RATE_LIMITED"
  ELSE IF resp.status \notin 200..299 THEN "HTTP_ERROR"
  ELSE BodyOutcome(resp)

\* checkDates (database.js): the error thrown for a response, "OK" for none.
checkDates(resp) ==
  IF resp.transport = "socket" THEN "SOCKET_EXHAUSTED"
  ELSE IF resp.transport = "other" THEN "NETWORK_ERROR"
  ELSE IF resp.status \in {401, 403} THEN "SESSION_EXPIRED"
  ELSE IF resp.status = 429 THEN "RATE_LIMITED"
  ELSE IF resp.status = 422 THEN "CSRF_EXPIRED"
  ELSE IF resp.status \notin 200..299 THEN "HTTP_ERROR"
  ELSE BodyOutcome(resp)

\* runCheckCycle: `err._isSocketError && err._retriesExhausted`
IsExhaustedSocketError(outcome) == outcome = "SOCKET_EXHAUSTED"

\* IpBlockDetected declaring a block at the first facility that fails.
IpBlockDetected_mut(socketFailCount, nFac) == socketFailCount >= 1

\* runCheckCycle: `if (socketFailCount >= facilityIds.length)`
IpBlockDetected(socketFailCount, nFac) == socketFailCount >= nFac

\* AutoBookEnabled ignoring the configuration.
AutoBookEnabled_mut(cfg) == TRUE

\* runCheckCycle: `if (this.config.autoBook)`
AutoBookEnabled(cfg) == cfg.autoBook

\* CooldownMs indexing with the count after its increment.
CooldownMs_mut(count) == BLOCK_COOLDOWNS[Min(count + 1, Len(BLOCK_COOLDOWNS) - 1) + 1]

\* _runLoop: BLOCK_COOLDOWNS[Math.min(blockCount, BLOCK_COOLDOWNS.length - 1)]
\* (blockCount is the 0-based count of earlier blocks; sequences are 1-based).
CooldownMs(count) == BLOCK_COOLDOWNS[Min(count, Len(BLOCK_COOLDOWNS) - 1) + 1]

\* ------------------------------------------------------------------------
\* Health accounting and the store
\* ------------------------------------------------------------------------
InitHealth == [totalChecks |-> 0, successfulChecks |-> 0, failedChecks |-> 0,
               consecutiveFailures |-> 0, lastError |-> "null"]

\* CycleAccounting counting a successful cycle as failed as well.
CycleAccounting_mut(h, anySuccess, lastError) ==
  IF anySuccess
  THEN [h EXCEPT !.successfulChecks = @ + 1, !.failedChecks = @ + 1,
                 !.consecutiveFailures = 0]
  ELSE [h EXCEPT !.failedChecks = @ + 1, !.consecutiveFailures = @ + 1,
                 !.lastError = lastError]

\* runCheckCycle, end of cycle: `if (anySuccess) {...} else {...}`
CycleAccounting(h, anySuccess, lastError) ==
  IF anySuccess
  THEN [h EXCEPT !.successfulChecks = @ + 1, !.consecutiveFailures = 0]
  ELSE [h EXCEPT !.failedChecks = @ + 1, !.consecutiveFailures = @ + 1,
                 !.lastError = lastError]

\* BlockAccounting leaving consecutiveFailures alone.
BlockAccounting_mut(h) ==
  [h EXCEPT !.failedChecks = @ + 1, !.lastError = "IP_BLOCKED"]

\* runCheckCycle, IP block detected: failedChecks++, consecutiveFailures++,
\* lastError = 'IP_BLOCKED'.
BlockAccounting(h) ==
  [h EXCEPT !.failedChecks = @ + 1, !.consecutiveFailures = @ + 1,
            !.lastError = "IP_BLOCKED"]

\* syncHealth: db.updateJob with the health counters and lastError.
syncHealth(st, h) ==
  [st EXCEPT !.totalChecks = h.totalChecks, !.lastError = h.lastError]

\* runCheckCycle: `if (this.health.totalChecks % 5 === 0) this.syncHealth()`
PeriodicSync(st, h) == IF h.totalChecks % SyncEvery = 0 THEN syncHealth(st, h) ELSE st

\* ------------------------------------------------------------------------
\* Initial state: a constructed SchedulerInstance whose job row is stored.
\* ------------------------------------------------------------------------
MaxReloginChoices == {2}        \* 0 would be: maxReloginAttempts not set

Configs == [autoBook : BOOLEAN, nFac : 0..MaxFacilities,
            maxReloginAttempts : MaxReloginChoices]

NoCycle == [i |-> 0, anySuccess |-> FALSE, socketFailCount |-> 0,
            lastError |-> "null", matching |-> <<>>, d |-> 0, attempt |-> 0]

\* sockFailed: the facilities whose latest open-days fetch ended in a
\* retries-exhausted socket failure; fetchOk: some fetch succeeded; matched:
\* some fetch had dates in range; lastErr: the last fetch error; lastStatus:
\* HTTP status of the latest fetch (0: none); lastOut: what the latest fetch
\* threw ("OK": nothing, "none": no fetch yet); lastBook: the result of the
\* bookAppointment call being handled; blocks: cycles of this run that
\* returned IP_BLOCKED; lastLogin: how the re-login of _runLoop that has just
\* returned ended ("none": the cycle after it has fetched since); stopNoop:
\* a stop() call found the instance not running and returned at once.
NoHist == [sockFailed |-> {}, fetchOk |-> FALSE, matched |-> FALSE,
           lastErr |-> "null", lastStatus |-> 0, lastOut |-> "none",
           lastBook |-> <<>>, blocks |-> 0, lastLogin |-> "none",
           stopNoop |-> FALSE]

NewCycleHist(hi) == [NoHist EXCEPT !.blocks = hi.blocks, !.lastLogin = hi.lastLogin]

\* No transport call is in progress.
\* No job manager: the instance runs on its own.
NoJobManager ==
  /\ instances = <<>>
  /\ inst = <<>>
  /\ jobs = <<>>
  /\ cookies = 0

NoRetry == [pc |-> "idle", maxRetries |-> 0, attempt |-> 0, sleeps |-> 0,
            delay |-> 0, lastError |-> <<>>]

InitStore == [status |-> "stopped", lastError |-> "null", booked |-> FALSE,
              totalChecks |-> 0]

InstanceInit ==
  /\ running = FALSE
  /\ health = InitHealth
  /\ loopPromise = "null"
  /\ sleepTimer = FALSE
  /\ timerPending = FALSE
  /\ pc = "idle"
  /\ sleepRet = "none"
  /\ sleepKind = "none"
  /\ sleepMs = 0
  /\ loginRet = "none"
  /\ cyc = NoCycle
  /\ blockCount = 0
  /\ result = "NONE"
  /\ store = InitStore
  /\ stopPc = "idle"
  /\ hist = NoHist

Init ==
  /\ config \in Configs
  /\ cap = [checks |-> MaxChecks, clear |-> MaxChecks]
  /\ InstanceInit
  /\ fnName = "none"
  /\ fnArg = <<>>
  /\ fnRes = <<>>
  /\ retry = NoRetry
  /\ NoJobManager

\* ------------------------------------------------------------------------
\* Fragments of the main flow (each is the rest of a step up to the next await)
\* ------------------------------------------------------------------------
Goto(p) ==
  /\ pc' = p
  /\ sleepRet' = "none"
  /\ sleepKind' = "none"
  /\ sleepMs' = 0
  /\ timerPending' = FALSE
  /\ UNCHANGED sleepTimer

\* sleep(ms): arm a timer, remember it in _sleepTimer, suspend until it fires.
Sleep(kind, ms, cont) ==
  /\ pc' = "sleep"
  /\ sleepRet' = cont
  /\ sleepKind' = kind
  /\ sleepMs' = ms
  /\ sleepTimer' = TRUE
  /\ timerPending' = TRUE

\* MaxRelogin without the default for an unset maxReloginAttempts.
MaxRelogin_mut(cfg) == cfg.maxReloginAttempts

\* `this.config.maxReloginAttempts || 5`
MaxRelogin(cfg) == IF cfg.maxReloginAttempts = 0 THEN DefaultMaxRelogin
                   ELSE cfg.maxReloginAttempts

\* _runLoop: the wait before the next cycle (fixed interval, floor 3 s).
IntervalWaitMs == Max(MinWaitMs, DefaultIntervalSeconds * 1000)

\* _runLoop after the while loop: syncHealth(); await closePage().
ExitLoop(h, st) ==
  /\ health' = h
  /\ store' = syncHealth(st, h)
  /\ Goto("loop_close")
  /\ loginRet' = "none"
  /\ UNCHANGED <<running, blockCount>>

\* RunningAfterBooked leaving the flag set.
RunningAfterBooked_mut == running

\* _runLoop, BOOKED branch: `this.running = false`.
RunningAfterBooked == FALSE

\* BlockCountAfterContinue starting over after a successful cycle.
BlockCountAfterContinue_mut(h) ==
  IF h.consecutiveFailures = 0 THEN 0 ELSE blockCount

\* _runLoop: blockCount is assigned only in the IP_BLOCKED branch
\* (`blockCount++`); a cycle that returns CONTINUE leaves it as it is.
BlockCountAfterContinue(h) == blockCount

\* CycleReturn with exhausted re-login ending the run in state error.
CycleReturn_mut(res, h, st, c, hi) ==
  /\ result' = res
  /\ cyc' = NoCycle
  /\ hist' = IF res = "IP_BLOCKED" THEN [hi EXCEPT !.blocks = @ + 1] ELSE hi
  /\ CASE res = "BOOKED" ->
            /\ running' = RunningAfterBooked
            /\ health' = h
            /\ store' = syncHealth(syncHealth(st, h), h)
            /\ Goto("loop_close")
            /\ loginRet' = "none"
            /\ UNCHANGED blockCount
       [] res = "STOPPED" -> ExitLoop(h, st)
       [] res = "IP_BLOCKED" ->
            /\ blockCount' = blockCount + 1
            /\ health' = h
            /\ store' = [st EXCEPT !.lastError = "IP blocked - cooldown"]
            /\ Sleep("cooldown", CooldownMs(blockCount), "login")
            /\ loginRet' = "cooldown"
            /\ UNCHANGED running
       [] res = "LOGIN_FAILED" ->
            IF h.consecutiveFailures >= MaxRelogin(config)
            THEN /\ running' = FALSE
                 /\ health' = h
                 /\ store' = [st EXCEPT !.status = "error",
                                        !.lastError = "LOGIN_FAILED"]
                 /\ Goto("loop_close")
                 /\ loginRet' = "none"
                 /\ UNCHANGED blockCount
            ELSE /\ health' = h
                 /\ Sleep("relogin_retry", ReloginRetryMs, "login")
                 /\ store' = st
                 /\ loginRet' = "loginfailed"
                 /\ UNCHANGED <<running, blockCount>>
       [] res = "CONTINUE" ->
            IF ~running
            THEN ExitLoop(h, st)
            ELSE /\ health' = h
                 /\ store' = st
                 /\ Sleep("interval", IntervalWaitMs, "loop_head")
                 /\ loginRet' = "none"
                 /\ blockCount' = BlockCountAfterContinue(h)
                 /\ UNCHANGED running

\* _runLoop: the branch on the outcome of runCheckCycle.  h, st, c and hi are
\* the health, store, cycle locals and history as the cycle left them.
CycleReturn(res, h, st, c, hi) ==
  /\ result' = res
  /\ cyc' = NoCycle
  /\ hist' = IF res = "IP_BLOCKED" THEN [hi EXCEPT !.blocks = @ + 1] ELSE hi
  /\ CASE res = "BOOKED" ->
            /\ running' = RunningAfterBooked
            /\ health' = h
            /\ store' = syncHealth(syncHealth(st, h), h)
            /\ Goto("loop_close")
            /\ loginRet' = "none"
            /\ UNCHANGED blockCount
       [] res = "STOPPED" -> ExitLoop(h, st)
       [] res = "IP_BLOCKED" ->
            /\ blockCount' = blockCount + 1
            /\ health' = h
            /\ store' = [st EXCEPT !.lastError = "IP blocked - cooldown"]
            /\ Sleep("cooldown", CooldownMs(blockCount), "login")
            /\ loginRet' = "cooldown"
            /\ UNCHANGED running
       [] res = "LOGIN_FAILED" ->
            /\ IF h.consecutiveFailures >= MaxRelogin(config)
               THEN /\ health' = [h EXCEPT !.consecutiveFailures = 0]
                    /\ Sleep("relogin_cooldown", ReloginCooldownMs, "login")
               ELSE /\ health' = h
                    /\ Sleep("relogin_retry", ReloginRetryMs, "login")
            /\ store' = st
            /\ loginRet' = "loginfailed"
            /\ UNCHANGED <<running, blockCount>>
       [] res = "CONTINUE" ->
            IF ~running
            THEN ExitLoop(h, st)
            ELSE /\ health' = h
                 /\ store' = st
                 /\ Sleep("interval", IntervalWaitMs, "loop_head")
                 /\ loginRet' = "none"
                 /\ blockCount' = BlockCountAfterContinue(h)
                 /\ UNCHANGED running

\* What no step of the main flow changes.
others == <<config, stopPc, cap, fnName, fnArg, fnRes, retry, jmVars>>

\* runCheckCycle: end of one facility iteration: `i++`, the loop test, the stop
\* check at the top of the next iteration and the pause before its fetch; after
\* the last facility, the cycle accounting and `return 'CONTINUE'`.
NextFacility(i2, c, h, st, hi) ==
  LET c2 == [c EXCEPT !.i = i2, !.matching = <<>>, !.d = 0, !.attempt = 0]
      hi2 == [hi EXCEPT !.lastBook = <<>>]
  IN  IF i2 > config.nFac
      THEN LET h2 == CycleAccounting(h, c.anySuccess, c.lastError)
           IN  CycleReturn("CONTINUE", h2, PeriodicSync(st, h2), c2, hi2)
      ELSE IF ~running
      THEN CycleReturn("STOPPED", h, st, c2, hi2)
      ELSE /\ cyc' = c2
           /\ hist' = hi2
           /\ health' = h
           /\ store' = st
           /\ IF i2 > 1
              THEN Sleep("facility_pause", FacilityPauseMs, "checkDates")
              ELSE Goto("checkDates")
           /\ loginRet' = "none"
           /\ UNCHANGED <<result, running, blockCount>>

\* runCheckCycle: the tests of the two booking loops
\* (`d < Math.min(matching.length, 3)`, `attempt <= 3`) and the stop check
\* at the top of an attempt.
BookAttemptHead(d2, a2, c, h, st, hi) ==
  LET dN == IF a2 > MaxBookAttempts THEN d2 + 1 ELSE d2
      aN == IF a2 > MaxBookAttempts THEN 1 ELSE a2
      hi2 == [hi EXCEPT !.lastBook = <<>>]
  IN  IF dN > Min(Len(c.matching), MaxBookDates)
      THEN NextFacility(c.i + 1, c, h, st, hi2)
      ELSE IF ~running
      THEN CycleReturn("STOPPED", h, st, [c EXCEPT !.d = dN, !.attempt = aN], hi2)
      ELSE /\ cyc' = [c EXCEPT !.d = dN, !.attempt = aN]
           /\ hist' = hi2
           /\ health' = h
           /\ store' = st
           /\ Goto("checkTimes")
           /\ loginRet' = "none"
           /\ UNCHANGED <<result, running, blockCount>>

\* runCheckCycle: after a failed attempt, `if (attempt < 3) await this.sleep(500)`.
AfterAttempt(c, h, st, hi) ==
  IF c.attempt < MaxBookAttempts
  THEN /\ cyc' = c
       /\ hist' = hi
       /\ health' = h
       /\ store' = st
       /\ Sleep("attempt_pause", AttemptPauseMs, "attempt_next")
       /\ loginRet' = "none"
       /\ UNCHANGED <<result, running, blockCount>>
  ELSE BookAttemptHead(c.d, c.attempt + 1, c, h, st, hi)

\* _runLoop: `while (this.running)` and the start of runCheckCycle up to its
\* first await.
LoopIterFrom(h, st, hi) ==
  IF ~running
  THEN /\ ExitLoop(h, st)
       /\ hist' = hi
       /\ UNCHANGED <<result, cyc>>
  ELSE /\ h.totalChecks < cap.checks
       /\ h.totalChecks - blockCount < cap.clear
       /\ LET h2 == [h EXCEPT !.totalChecks = @ + 1]
              c0 == [NoCycle EXCEPT !.i = 1]
          IN  IF config.nFac = 0
              THEN CycleReturn("CONTINUE", h2, st, c0, NewCycleHist(hi))
              ELSE /\ health' = h2
                   /\ store' = st
                   /\ cyc' = c0
                   /\ hist' = NewCycleHist(hi)
                   /\ result' = "NONE"
                   /\ Goto("checkDates")
                   /\ loginRet' = "none"
                 /\ UNCHANGED <<running, blockCount>>

LoopIter(h, st) == LoopIterFrom(h, st, hist)

\* ------------------------------------------------------------------------
\* start() and login()
\* ------------------------------------------------------------------------
LoginErrors == {"Invalid email or password.", "Login rate limited. Try again later."}

\* start(): load the config, set running, mark the job running, call login().
Start ==
  /\ pc = "idle"
  /\ ~running
  /\ running' = TRUE
  /\ store' = [store EXCEPT !.status = "running"]
  /\ Goto("login")
  /\ loginRet' = "start"
  /\ UNCHANGED <<health, loopPromise, cyc, blockCount, result, hist>>
  /\ UNCHANGED others

\* StartLoginFailed leaving the running flag set.
StartLoginFailed_mut(msg) ==
  /\ store' = [store EXCEPT !.status = "error", !.lastError = msg]
  /\ Goto("start_close")
  /\ loginRet' = "none"
  /\ UNCHANGED <<running, health, cyc, blockCount, result, hist>>

\* start(): the catch of the initial login.
StartLoginFailed(msg) ==
  /\ store' = [store EXCEPT !.status = "error", !.lastError = msg]
  /\ running' = FALSE
  /\ Goto("start_close")
  /\ loginRet' = "none"
  /\ UNCHANGED <<health, cyc, blockCount, result, hist>>

\* AfterCooldownLogin resetting the count whatever the login did.
AfterCooldownLogin_mut(ok, h) == [h EXCEPT !.consecutiveFailures = 0]

\* _runLoop, IP_BLOCKED branch: `try { await this.login();
\* this.health.consecutiveFailures = 0 } catch (e) { log }`.
AfterCooldownLogin(ok, h) ==
  IF ok THEN [h EXCEPT !.consecutiveFailures = 0] ELSE h

ReloginHist(ok) == [hist EXCEPT !.lastLogin = IF ok THEN "ok" ELSE "failed"]

\* LoginReturn going on to the next facility after a re-login in the cycle.
LoginReturn_mut(ok, msg) ==
  CASE loginRet = "start" ->
         IF ok
         THEN /\ Goto("start_locs")
              /\ loginRet' = "none"
              /\ UNCHANGED <<running, health, store, cyc, blockCount, result, hist>>
         ELSE StartLoginFailed(msg)
    [] loginRet = "cycle" ->
         IF ok
         THEN NextFacility(cyc.i + 1, cyc, health, store, hist)
         ELSE CycleReturn("LOGIN_FAILED", health, store, cyc, hist)
    [] loginRet \in {"book_result", "book_catch"} ->
         AfterAttempt(cyc, health, store, hist)
    [] loginRet = "cooldown" ->
         LoopIterFrom(AfterCooldownLogin(ok, health), store, ReloginHist(ok))
    [] loginRet = "loginfailed" ->
         LoopIterFrom(IF ok THEN [health EXCEPT !.consecutiveFailures = 0]
                            ELSE [health EXCEPT !.consecutiveFailures = @ + 1],
                      store, ReloginHist(ok))

\* The code that follows `await this.login()` at each of its call sites.
LoginReturn(ok, msg) ==
  CASE loginRet = "start" ->
         IF ok
         THEN /\ Goto("start_locs")
              /\ loginRet' = "none"
              /\ UNCHANGED <<running, health, store, cyc, blockCount, result, hist>>
         ELSE StartLoginFailed(msg)
    [] loginRet = "cycle" ->
         IF ok
         THEN NextFacility(cyc.i, cyc, health, store, hist)
         ELSE CycleReturn("LOGIN_FAILED", health, store, cyc, hist)
    [] loginRet \in {"book_result", "book_catch"} ->
         AfterAttempt(cyc, health, store, hist)
    [] loginRet = "cooldown" ->
         LoopIterFrom(AfterCooldownLogin(ok, health), store, ReloginHist(ok))
    [] loginRet = "loginfailed" ->
         LoopIterFrom(IF ok THEN [health EXCEPT !.consecutiveFailures = 0]
                            ELSE [health EXCEPT !.consecutiveFailures = @ + 1],
                      store, ReloginHist(ok))

\* login(): the login page has loaded (then the settle sleep) or failed to load.
LoginPageLoaded ==
  /\ pc = "login"
  /\ \/ /\ Sleep("login_settle", LoginSettleMs, "login_submit")
        /\ UNCHANGED <<running, health, store, cyc, blockCount, result, hist, loginRet>>
     \/ LoginReturn(FALSE, "Could not load login page")
  /\ UNCHANGED loopPromise
  /\ UNCHANGED others

\* login(): the form was submitted and the outcome read from the page.
LoginFinish ==
  /\ pc = "login_submit"
  /\ \/ LoginReturn(TRUE, "none")
     \/ \E msg \in LoginErrors : LoginReturn(FALSE, msg)
  /\ UNCHANGED loopPromise
  /\ UNCHANGED others

\* start(): fetchLocations() for the cache (its failure is ignored), then
\* `this.loopPromise = this._runLoop()`.
EnterLoop ==
  /\ loopPromise' = "pending"
  /\ LoopIter(health, store)

StartLocationsLoaded ==
  /\ pc = "start_locs"
  /\ \/ /\ Sleep("locations_settle", LoginSettleMs, "enter_loop")
        /\ UNCHANGED <<running, health, store, cyc, blockCount, result, hist,
                       loginRet, loopPromise>>
     \/ EnterLoop
  /\ UNCHANGED others

\* start() after a failed login, _runLoop() after the loop: closePage() is done.
StartClose ==
  /\ pc = "start_close"
  /\ Goto("start_failed")
  /\ UNCHANGED <<running, health, store, cyc, blockCount, result, hist, loginRet,
                 loopPromise>>
  /\ UNCHANGED others

LoopClose ==
  /\ pc = "loop_close"
  /\ Goto("loop_done")
  /\ loopPromise' = "resolved"
  /\ UNCHANGED <<running, health, store, cyc, blockCount, result, hist, loginRet>>
  /\ UNCHANGED others

\* ------------------------------------------------------------------------
\* runCheckCycle
\* ------------------------------------------------------------------------
\* FacilityError skipping the facility after one whose fetch failed.
FacilityError_mut(out, c, hi) ==
  IF IsExhaustedSocketError(out)
  THEN LET c2 == [c EXCEPT !.socketFailCount = @ + 1]
       IN  IF IpBlockDetected(c2.socketFailCount, config.nFac)
           THEN LET h2 == BlockAccounting(health)
                IN  CycleReturn("IP_BLOCKED", h2, syncHealth(store, h2), c2, hi)
           ELSE /\ cyc' = c2
                /\ hist' = hi
                /\ Sleep("partial_block_pause", PartialBlockPauseMs, "next_fac")
                /\ loginRet' = "none"
                /\ UNCHANGED <<running, health, store, blockCount, result>>
  ELSE IF out = "SESSION_EXPIRED"
  THEN /\ cyc' = c
       /\ hist' = hi
       /\ Goto("login")
       /\ loginRet' = "cycle"
       /\ UNCHANGED <<running, health, store, blockCount, result>>
  ELSE IF out = "RATE_LIMITED"
  THEN /\ cyc' = c
       /\ hist' = hi
       /\ Sleep("rate_limit", RateLimitPauseMs, "next_fac")
       /\ loginRet' = "none"
       /\ UNCHANGED <<running, health, store, blockCount, result>>
  ELSE IF out = "CSRF_EXPIRED"
  THEN /\ cyc' = c
       /\ hist' = hi
       /\ Goto("csrf_refresh")
       /\ loginRet' = "none"
       /\ UNCHANGED <<running, health, store, blockCount, result>>
  ELSE NextFacility(c.i + 2, c, health, store, hi)

\* runCheckCycle: the catch block of one facility, for the error `out`.
FacilityError(out, c, hi) ==
  IF IsExhaustedSocketError(out)
  THEN LET c2 == [c EXCEPT !.socketFailCount = @ + 1]
       IN  IF IpBlockDetected(c2.socketFailCount, config.nFac)
           THEN LET h2 == BlockAccounting(health)
                IN  CycleReturn("IP_BLOCKED", h2, syncHealth(store, h2), c2, hi)
           ELSE /\ cyc' = c2
                /\ hist' = hi
                /\ Sleep("partial_block_pause", PartialBlockPauseMs, "next_fac")
                /\ loginRet' = "none"
                /\ UNCHANGED <<running, health, store, blockCount, result>>
  ELSE IF out = "SESSION_EXPIRED"
  THEN /\ cyc' = c
       /\ hist' = hi
       /\ Goto("login")
       /\ loginRet' = "cycle"
       /\ UNCHANGED <<running, health, store, blockCount, result>>
  ELSE IF out = "RATE_LIMITED"
  THEN /\ cyc' = c
       /\ hist' = hi
       /\ Sleep("rate_limit", RateLimitPauseMs, "next_fac")
       /\ loginRet' = "none"
       /\ UNCHANGED <<running, health, store, blockCount, result>>
  ELSE IF out = "CSRF_EXPIRED"
  THEN /\ cyc' = c
       /\ hist' = hi
       /\ Goto("csrf_refresh")
       /\ loginRet' = "none"
       /\ UNCHANGED <<running, health, store, blockCount, result>>
  ELSE NextFacility(c.i + 1, c, health, store, hi)

\* runCheckCycle: `const dates = await this.checkDates(facId)` has settled.
CheckDatesDone ==
  /\ pc = "checkDates"
  /\ \E resp \in DaysResponses :
       LET out == checkDates(resp)
           hi == [hist EXCEPT !.lastStatus = resp.status, !.lastOut = out,
                                !.lastLogin = "none"]
       IN  IF out = "OK"
           THEN \E dates \in ReturnedLists(resp) :
                  LET matching == filterDatesInRange(dates)
                      c1 == [cyc EXCEPT !.anySuccess = TRUE, !.socketFailCount = 0,
                                        !.matching = matching]
                      hi1 == [hi EXCEPT !.fetchOk = TRUE,
                                        !.matched = @ \/ Len(matching) > 0,
                                        !.sockFailed = @ \ {cyc.i}]
                  IN  IF Len(matching) > 0 /\ AutoBookEnabled(config)
                      THEN BookAttemptHead(1, 1, c1, health, store, hi1)
                      ELSE NextFacility(cyc.i + 1, c1, health, store, hi1)
           ELSE FacilityError(out, [cyc EXCEPT !.lastError = out],
                  [hi EXCEPT !.lastErr = out,
                             !.sockFailed = IF IsExhaustedSocketError(out)
                                            THEN @ \cup {cyc.i} ELSE @ \ {cyc.i}])
  /\ UNCHANGED loopPromise
  /\ UNCHANGED others

\* runCheckCycle: `try { await this.fetchLocations(); } catch (e) { }` after a
\* CSRF_EXPIRED: the page failed to load, or loaded (then the settle sleep).
CsrfRefreshLoaded ==
  /\ pc = "csrf_refresh"
  /\ \/ NextFacility(cyc.i + 1, cyc, health, store, hist)
     \/ /\ Sleep("locations_settle", LoginSettleMs, "next_fac")
        /\ UNCHANGED <<running, health, store, cyc, blockCount, result, hist, loginRet>>
  /\ UNCHANGED loopPromise
  /\ UNCHANGED others

\* runCheckCycle: `const times = await this.checkTimes(facId, targetDate)`.
CheckTimesDone ==
  /\ pc = "checkTimes"
  /\ \/ BookAttemptHead(cyc.d + 1, 1, cyc, health, store, hist)   \* no times: break
     \/ /\ Goto("book")                                           \* times[0] exists
        /\ UNCHANGED <<running, health, store, cyc, blockCount, result, hist, loginRet>>
     \/ /\ Goto("login")                                          \* SESSION_EXPIRED
        /\ loginRet' = "book_catch"
        /\ UNCHANGED <<running, health, store, cyc, blockCount, result, hist>>
     \/ AfterAttempt(cyc, health, store, hist)                    \* another error
  /\ UNCHANGED loopPromise
  /\ UNCHANGED others

\* runCheckCycle: what follows `const result = await this.bookAppointment(...)`.
BookReturn(r) ==
  LET hi == [hist EXCEPT !.lastBook = <<r>>]
  IN  IF IsBooked(r)
      THEN CycleReturn("BOOKED", health,
                       [store EXCEPT !.status = "booked", !.booked = TRUE], cyc, hi)
      ELSE IF IsSessionExpiredReason(r)
      THEN /\ hist' = hi
           /\ Goto("login")
           /\ loginRet' = "book_result"
           /\ UNCHANGED <<running, health, store, cyc, blockCount, result>>
      ELSE AfterAttempt(cyc, health, store, hi)

\* bookAppointment: the appointment page was requested; it failed to load
\* (throws), redirected to sign-in or lacks the form (early result), or loaded
\* (the form is filled in after the settle sleep).
BookPageLoaded ==
  /\ pc = "book"
  /\ \/ AfterAttempt(cyc, health, store, hist)
     \/ \E r \in EarlyBookResults : BookReturn(r)
     \/ /\ Sleep("book_settle", LoginSettleMs, "book_submit")
        /\ UNCHANGED <<running, health, store, cyc, blockCount, result, hist, loginRet>>
  /\ UNCHANGED loopPromise
  /\ UNCHANGED others

\* bookAppointment: the form was submitted and the resulting page classified.
BookDone ==
  /\ pc = "book_submit"
  /\ \E r \in SubmitResults : BookReturn(r)
  /\ UNCHANGED loopPromise
  /\ UNCHANGED others

\* ------------------------------------------------------------------------
\* Timers and stop()
\* ------------------------------------------------------------------------
\* The timer armed by sleep() fires: the promise resolves and the flow goes on.
TimerFire ==
  /\ pc = "sleep"
  /\ timerPending
  /\ CASE sleepRet = "loop_head" ->
            /\ LoopIter(health, store)
            /\ UNCHANGED loopPromise
       [] sleepRet = "enter_loop" -> EnterLoop
       [] sleepRet \in {"login", "login_submit", "checkDates", "book_submit"} ->
            /\ Goto(sleepRet)
            /\ UNCHANGED <<running, health, store, cyc, blockCount, result, hist,
                           loginRet, loopPromise>>
       [] sleepRet = "next_fac" ->
            /\ NextFacility(cyc.i + 1, cyc, health, store, hist)
            /\ UNCHANGED loopPromise
       [] sleepRet = "attempt_next" ->
            /\ BookAttemptHead(cyc.d, cyc.attempt + 1, cyc, health, store, hist)
            /\ UNCHANGED loopPromise
  /\ UNCHANGED others

\* cancelSleep(): clearTimeout(this._sleepTimer); this._sleepTimer = null.
\* The promise returned by sleep() is not resolved.
cancelSleep ==
  IF sleepTimer
  THEN /\ timerPending' = FALSE
       /\ sleepTimer' = FALSE
  ELSE UNCHANGED <<timerPending, sleepTimer>>

\* stop(): up to its first await.
StopCall ==
  /\ stopPc = "idle"
  /\ running
  /\ running' = FALSE
  /\ cancelSleep
  /\ IF loopPromise # "null"
     THEN /\ stopPc' = "wait"
          /\ UNCHANGED store
     ELSE /\ stopPc' = "close"
          /\ store' = syncHealth(store, health)
  /\ UNCHANGED <<config, health, loopPromise, pc, sleepRet, sleepKind, sleepMs,
                 loginRet, cyc, blockCount, result, hist, cap>>
  /\ UNCHANGED <<fnVars, jmVars>>

\* StopNotRunning marking the job stopped all the same.
StopNotRunning_mut ==
  /\ stopPc = "idle"
  /\ ~running
  /\ hist' = [hist EXCEPT !.stopNoop = TRUE]
  /\ store' = [store EXCEPT !.status = "stopped"]
  /\ UNCHANGED <<config, running, health, loopPromise, flowVars, loginRet, cyc,
                 blockCount, result, stopPc, cap>>
  /\ UNCHANGED <<fnVars, jmVars>>

\* stop() on an instance that is not running: `if (!this.running) return;`.
StopNotRunning ==
  /\ stopPc = "idle"
  /\ ~running
  /\ hist' = [hist EXCEPT !.stopNoop = TRUE]
  /\ UNCHANGED <<config, running, health, loopPromise, flowVars, loginRet, cyc,
                 blockCount, result, store, stopPc, cap>>
  /\ UNCHANGED <<fnVars, jmVars>>

\* stop(): Promise.race([loopPromise, 5 s]) settles because the loop ended.
StopLoopEnded ==
  /\ stopPc = "wait"
  /\ loopPromise = "resolved"
  /\ stopPc' = "close"
  /\ store' = syncHealth(store, health)
  /\ UNCHANGED <<config, running, health, loopPromise, flowVars, loginRet, cyc,
                 blockCount, result, hist, cap>>
  /\ UNCHANGED <<fnVars, jmVars>>

\* stop(): Promise.race([loopPromise, 5 s]) settles because 5 s have passed.
StopTimeout ==
  /\ stopPc = "wait"
  /\ loopPromise # "resolved"
  /\ stopPc' = "close"
  /\ store' = syncHealth(store, health)
  /\ UNCHANGED <<config, running, health, loopPromise, flowVars, loginRet, cyc,
                 blockCount, result, hist, cap>>
  /\ UNCHANGED <<fnVars, jmVars>>

\* StopClose without the final status update.
StopClose_mut ==
  /\ stopPc = "close"
  /\ stopPc' = "done"
  /\ store' = store
  /\ UNCHANGED <<config, running, health, loopPromise, flowVars, loginRet, cyc,
                 blockCount, result, hist, cap>>
  /\ UNCHANGED <<fnVars, jmVars>>

\* stop(): closePage() is done; mark the job stopped.
StopClose ==
  /\ stopPc = "close"
  /\ stopPc' = "done"
  /\ store' = [store EXCEPT !.status = "stopped"]
  /\ UNCHANGED <<config, running, health, loopPromise, flowVars, loginRet, cyc,
                 blockCount, result, hist, cap>>
  /\ UNCHANGED <<fnVars, jmVars>>

\* ------------------------------------------------------------------------
\* Specification
\* ------------------------------------------------------------------------
Flow == \/ Start
        \/ LoginPageLoaded
        \/ LoginFinish
        \/ StartLocationsLoaded
        \/ StartClose
        \/ LoopClose
        \/ CheckDatesDone
        \/ CsrfRefreshLoaded
        \/ CheckTimesDone
        \/ BookPageLoaded
        \/ BookDone

Stop == \/ StopCall
        \/ StopNotRunning
        \/ StopLoopEnded
        \/ StopTimeout
        \/ StopClose

Next == Flow \/ TimerFire \/ Stop

Spec == Init /\ [][Next]_vars

\* The runs of a job that watches one facility, long enough for the cooldown
\* tiers to be exhausted.
InitBlock ==
  /\ config \in {c \in Configs : c.nFac = 1}
  /\ cap = [checks |-> MaxBlockChecks, clear |-> MaxClearChecks]
  /\ InstanceInit
  /\ fnName = "none"
  /\ fnArg = <<>>
  /\ fnRes = <<>>
  /\ retry = NoRetry
  /\ NoJobManager

SpecBlock == InitBlock /\ [][Next]_vars

\* One facility, maxReloginAttempts unset or 2, and cycles enough for
\* consecutiveFailures to reach the default of 5.
MaxReloginChecks == 6

InitRelogin ==
  /\ config \in [autoBook : BOOLEAN, nFac : {1}, maxReloginAttempts : {0, 2}]
  /\ cap = [checks |-> MaxReloginChecks, clear |-> MaxClearChecks]
  /\ InstanceInit
  /\ fnName = "none"
  /\ fnArg = <<>>
  /\ fnRes = <<>>
  /\ retry = NoRetry
  /\ NoJobManager

SpecRelogin == InitRelogin /\ [][Next]_vars

\* ------------------------------------------------------------------------
\* Interval schedule (_runLoop, "Calculate next interval based on schedule")
\* ------------------------------------------------------------------------
MaxPhases == 2          \* phases of config.intervalSchedule
MaxElapsed == 61        \* minutes elapsed since the schedule anchor

PhaseSeconds == {10, 60}
PhaseDurations == {0, 5, 55}
Phases == [seconds : PhaseSeconds, durationMinutes : PhaseDurations]
Schedules == UNION {[1..n -> Phases] : n \in 0..MaxPhases}
IntervalChoices == {0, 45}     \* config.checkIntervalSeconds; 0: not set

\* The for loop over the phases: i is the next phase (1-based), acc the
\* minutes accumulated before it.  Returns <<phase found or 0, accumulated>>.
RECURSIVE FindPhase(_, _, _, _)
FindPhase(schedule, elapsed, i, acc) ==
  IF i > Len(schedule) THEN <<0, acc>>
  ELSE LET acc2 == acc + schedule[i].durationMinutes
       IN  IF elapsed < acc2 THEN <<i, acc2>>
           ELSE FindPhase(schedule, elapsed, i + 1, acc2)

\* NextInterval resetting the anchor only after the schedule's end is passed.
NextInterval_mut(schedule, elapsed, checkIntervalSeconds) ==
  LET base == IF checkIntervalSeconds = 0 THEN DefaultIntervalSeconds
              ELSE checkIntervalSeconds
  IN  IF Len(schedule) = 0
      THEN [seconds |-> base, reset |-> FALSE]
      ELSE LET found == FindPhase(schedule, elapsed, 1, 0)
               secs == IF found[1] # 0 THEN schedule[found[1]].seconds ELSE base
           IN  IF elapsed > found[2]
               THEN [seconds |-> schedule[1].seconds, reset |-> TRUE]
               ELSE [seconds |-> secs, reset |-> FALSE]

\* _runLoop: the interval for the next wait and whether the schedule anchor
\* (scheduleStartTime) is reset to the current time.
NextInterval(schedule, elapsed, checkIntervalSeconds) ==
  LET base == IF checkIntervalSeconds = 0 THEN DefaultIntervalSeconds
              ELSE checkIntervalSeconds
  IN  IF Len(schedule) = 0
      THEN [seconds |-> base, reset |-> FALSE]
      ELSE LET found == FindPhase(schedule, elapsed, 1, 0)
               secs == IF found[1] # 0 THEN schedule[found[1]].seconds ELSE base
           IN  IF elapsed >= found[2]
               THEN [seconds |-> schedule[1].seconds, reset |-> TRUE]
               ELSE [seconds |-> secs, reset |-> FALSE]

\* ------------------------------------------------------------------------
\* Retry wrapper (browserFetch / fetchWithRetry)
\* ------------------------------------------------------------------------
MaxAttempt == 7         \* attempt numbers given to the delay computation

SocketBaseMs == 5000
SocketCapMs == 60000
OtherBaseMs == 1000
OtherCapMs == 10000
JitterMs == 2000
\* Math.random() * 2000, in whole milliseconds: 0 <= jitter < 2000.
JitterChoices == {0, 1000, JitterMs - 1}

RECURSIVE Pow2(_)
Pow2(n) == IF n = 0 THEN 1 ELSE 2 * Pow2(n - 1)

\* baseDelay with the cap of the other class on socket errors.
baseDelay_mut(isSocketError, attempt) ==
  IF isSocketError
  THEN Min(SocketBaseMs * Pow2(attempt - 1), OtherCapMs)
  ELSE Min(OtherBaseMs * Pow2(attempt - 1), OtherCapMs)

\* `const baseDelay = isSocketError ? Math.min(5000 * Math.pow(2, attempt - 1),
\* 60000) : Math.min(1000 * Math.pow(2, attempt - 1), 10000)`
baseDelay(isSocketError, attempt) ==
  IF isSocketError
  THEN Min(SocketBaseMs * Pow2(attempt - 1), SocketCapMs)
  ELSE Min(OtherBaseMs * Pow2(attempt - 1), OtherCapMs)

\* `const delay = baseDelay + Math.random() * 2000`
retryDelay(isSocketError, attempt, jitter) == baseDelay(isSocketError, attempt) + jitter

MaxRetriesChoice == 3   \* largest maxRetries argument and config.maxRetries
MaxJobs == 2
MaxInstances == 2
DefaultMaxRetries == 3

\* `maxRetries = maxRetries || this.config.maxRetries || 3` (0: not given)
EffectiveMaxRetries(arg, cfg) ==
  IF arg # 0 THEN arg ELSE IF cfg # 0 THEN cfg ELSE DefaultMaxRetries

\* ShouldRetry taking the last attempt for one more to retry.
ShouldRetry_mut(attempt, maxRetries) == attempt <= maxRetries

\* In the catch: `if (attempt < maxRetries)` (sleep before the next attempt).
ShouldRetry(attempt, maxRetries) == attempt < maxRetries

\* LoopTest letting the loop go round once more after the last attempt.
LoopTest_mut(attempt, maxRetries) == attempt <= maxRetries

\* `while (attempt < maxRetries)`
LoopTest(attempt, maxRetries) == attempt < maxRetries

\* bookAppointment: the maxRetries argument of the call that posts the
\* booking form, `fetchWithRetry(bookUrl, { method: 'POST', ... }, 1)`.
BookSubmitMaxRetries == 1

\* Inputs of filterDatesInRange on its own: lists of entries with dates from
\* the day before startDate to the day after endDate.
MaxFilterDates == 3
FilterEntries == [date : (StartDate - 1)..(EndDate + 1), business_day : BOOLEAN]
FilterLists == UNION {[1..n -> FilterEntries] : n \in 0..MaxFilterDates}

\* The array filterDatesInRange returns holds bare date strings.
AsStrings(out) == [k \in 1..Len(out) |-> [chars |-> out[k]]]
\* The same dates as entries of an open-days response.
AsEntries(out) == [k \in 1..Len(out) |-> [date |-> out[k], business_day |-> TRUE]]

\* ------------------------------------------------------------------------
\* The auto-book sub-sequence of runCheckCycle for one facility visit
\* ------------------------------------------------------------------------
MaxMatching == 4        \* dates in range returned for the facility

\* `matching`: the dates in range, sorted.
MatchingLists == {[k \in 1..n |-> StartDate + k - 1] : n \in 0..MaxMatching}

\* What checkTimes can return: the open times of the date, as listed.
TimesLists == {<<>>, <<1>>, <<2>>, <<1, 2>>, <<2, 1>>}

\* d, attempt: the loop variables (d is 1-based); calls: bookAppointment calls
\* made so far; times: the list checkTimes returned last; call: the date and
\* time of the bookAppointment call made last; last: what happened last;
\* result: what the sub-sequence returned ("NOT_BOOKED": it fell through to
\* the rest of the facility's iteration).
NoAutoBook == [pc |-> "head", running |-> TRUE, d |-> 0, attempt |-> 0,
               calls |-> 0, times |-> <<>>, call |-> <<>>, last |-> "none",
               result |-> "NONE", booked |-> <<>>]

\* AutoBookHead trying every matching date.
AutoBookHead_mut(matching, r, d2, a2) ==
  LET dN == IF a2 > MaxBookAttempts THEN d2 + 1 ELSE d2
      aN == IF a2 > MaxBookAttempts THEN 1 ELSE a2
  IN  IF dN > Len(matching)
      THEN [r EXCEPT !.pc = "done", !.result = "NOT_BOOKED"]
      ELSE IF ~r.running
      THEN [r EXCEPT !.pc = "done", !.result = "STOPPED", !.d = dN, !.attempt = aN]
      ELSE [r EXCEPT !.pc = "times", !.d = dN, !.attempt = aN]

\* The tests of the two loops (`d < Math.min(matching.length, 3) && !booked`,
\* `attempt <= 3 && !booked`) and the stop check at the top of an attempt.
AutoBookHead(matching, r, d2, a2) ==
  LET dN == IF a2 > MaxBookAttempts THEN d2 + 1 ELSE d2
      aN == IF a2 > MaxBookAttempts THEN 1 ELSE a2
  IN  IF dN > Min(Len(matching), MaxBookDates)
      THEN [r EXCEPT !.pc = "done", !.result = "NOT_BOOKED"]
      ELSE IF ~r.running
      THEN [r EXCEPT !.pc = "done", !.result = "STOPPED", !.d = dN, !.attempt = aN]
      ELSE [r EXCEPT !.pc = "times", !.d = dN, !.attempt = aN]

fnFrame == <<config, running, health, loopPromise, flowVars, loginRet, cyc,
             blockCount, result, store, stopPc, hist, cap, fnName, fnArg, retry,
             jmVars>>

\* `if (matching.length > 0) { if (this.config.autoBook) {` : the sub-sequence
\* is entered.
AutoBookCall ==
  /\ fnName = "autoBook"
  /\ fnRes = <<>>
  /\ fnRes' = <<IF Len(fnArg[1]) > 0
                THEN AutoBookHead(fnArg[1], NoAutoBook, 1, 1)
                ELSE [NoAutoBook EXCEPT !.pc = "done", !.result = "NOT_BOOKED"]>>
  /\ UNCHANGED fnFrame

\* `const times = await this.checkTimes(facId, targetDate)` settles: an empty
\* list (break), a list (bookAppointment is called with times[0]) or an
\* error (the catch block, then the next attempt).
AutoBookTimesDone ==
  /\ fnName = "autoBook" /\ fnRes # <<>>
  /\ LET r == fnRes[1]
         matching == fnArg[1]
     IN  /\ r.pc = "times"
         /\ \/ \E times \in TimesLists :
                 IF Len(times) = 0
                 THEN fnRes' = <<AutoBookHead(matching,
                                   [r EXCEPT !.times = times, !.last = "noTimes"],
                                   r.d + 1, 1)>>
                 ELSE fnRes' = <<[r EXCEPT !.pc = "book", !.times = times,
                                           !.calls = @ + 1,
                                           !.call = <<matching[r.d], times[1]>>,
                                           !.last = "called"]>>
            \/ fnRes' = <<AutoBookHead(matching, [r EXCEPT !.last = "timesError"],
                                       r.d, r.attempt + 1)>>
  /\ UNCHANGED fnFrame

\* `const result = await this.bookAppointment(...)` settles: verified (the
\* booking is stored, return 'BOOKED'), not verified, or an error.
AutoBookBookDone ==
  /\ fnName = "autoBook" /\ fnRes # <<>>
  /\ LET r == fnRes[1]
         matching == fnArg[1]
     IN  /\ r.pc = "book"
         /\ \/ \E res \in SubmitResults \cup EarlyBookResults :
                 IF IsBooked(res)
                 THEN fnRes' = <<[r EXCEPT !.pc = "done", !.result = "BOOKED",
                                           !.booked = r.call, !.last = "verified"]>>
                 ELSE fnRes' = <<AutoBookHead(matching, [r EXCEPT !.last = "notVerified"],
                                             r.d, r.attempt + 1)>>
            \/ fnRes' = <<AutoBookHead(matching, [r EXCEPT !.last = "bookError"],
                                       r.d, r.attempt + 1)>>
  /\ UNCHANGED fnFrame

\* stop() is called while the sub-sequence awaits.
AutoBookStop ==
  /\ fnName = "autoBook" /\ fnRes # <<>>
  /\ fnRes[1].pc \in {"times", "book"}
  /\ fnRes[1].running
  /\ fnRes' = <<[fnRes[1] EXCEPT !.running = FALSE]>>
  /\ UNCHANGED fnFrame

\* ------------------------------------------------------------------------
\* The schedule tracking of _runLoop over cycles, cooldowns and waits
\* ------------------------------------------------------------------------
\* elapsed: whole minutes since scheduleStartTime; index: currentScheduleIndex;
\* first: no interval wait has ended since the last cooldown; seconds:
\* intervalSeconds of the wait in progress (0: none).
NoIntervalRun == [pc |-> "cycle", elapsed |-> 0, index |-> 0, first |-> FALSE,
                  seconds |-> 0]

\* `let scheduleStartTime = Date.now(); let currentScheduleIndex = 0;`
IntervalRunCall ==
  /\ fnName = "intervalRun"
  /\ fnRes = <<>>
  /\ fnRes' = <<NoIntervalRun>>
  /\ UNCHANGED fnFrame

\* A minute passes (during a cycle, a cooldown or a wait).
IntervalRunTick ==
  /\ fnName = "intervalRun" /\ fnRes # <<>>
  /\ fnRes[1].elapsed < MaxElapsed
  /\ fnRes' = <<[fnRes[1] EXCEPT !.elapsed = @ + 1]>>
  /\ UNCHANGED fnFrame

\* The cycle returned IP_BLOCKED: the cooldown sleep begins.
IntervalRunBlocked ==
  /\ fnName = "intervalRun" /\ fnRes # <<>>
  /\ fnRes[1].pc = "cycle"
  /\ fnRes' = <<[fnRes[1] EXCEPT !.pc = "cooldown"]>>
  /\ UNCHANGED fnFrame

\* AfterCooldown keeping the anchor.
AfterCooldown_mut(r) == [r EXCEPT !.pc = "cycle", !.index = 0, !.first = TRUE]

\* `scheduleStartTime = Date.now(); currentScheduleIndex = 0; continue;`
AfterCooldown(r) ==
  [r EXCEPT !.pc = "cycle", !.elapsed = 0, !.index = 0, !.first = TRUE]

\* The cooldown sleep and the re-login after it are over.
IntervalRunCooldownDone ==
  /\ fnName = "intervalRun" /\ fnRes # <<>>
  /\ fnRes[1].pc = "cooldown"
  /\ fnRes' = <<AfterCooldown(fnRes[1])>>
  /\ UNCHANGED fnFrame

\* The cycle returned CONTINUE: the interval is computed and the wait begins.
IntervalRunCycleDone ==
  /\ fnName = "intervalRun" /\ fnRes # <<>>
  /\ fnRes[1].pc = "cycle"
  /\ LET r == fnRes[1]
         schedule == fnArg[1]
         ni == NextInterval(schedule, r.elapsed, fnArg[2])
         found == FindPhase(schedule, r.elapsed, 1, 0)[1]
     IN  fnRes' = <<[pc |-> "wait",
                     elapsed |-> IF ni.reset THEN 0 ELSE r.elapsed,
                     index |-> IF ni.reset THEN 0
                               ELSE IF found # 0 THEN found - 1 ELSE r.index,
                     first |-> r.first,
                     seconds |-> ni.seconds]>>
  /\ UNCHANGED fnFrame

\* The interval wait is over: the next cycle begins.
IntervalRunWaitDone ==
  /\ fnName = "intervalRun" /\ fnRes # <<>>
  /\ fnRes[1].pc = "wait"
  /\ fnRes' = <<[fnRes[1] EXCEPT !.pc = "cycle", !.seconds = 0, !.first = FALSE]>>
  /\ UNCHANGED fnFrame

\* ------------------------------------------------------------------------
\* server.js: a POST to a callback route, through the middleware chain
\* ------------------------------------------------------------------------
\* A request: the route, whether its session is authenticated (a worker's
\* request carries no session cookie), the x-callback-secret header, and the
\* body: jobId (0: missing), level and message present or not, status
\* ("": missing), fields: some other allowed field of the status update.
CallbackRequests ==
  [route : {"log", "status", "destroy"},
   authenticated : BOOLEAN,
   secret : {"correct", "wrong", "missing"},
   jobId : {0, 1},
   level : BOOLEAN,
   message : BOOLEAN,
   status : {"", "booked"},
   fields : BOOLEAN]

Response(code, body, applied) == [code |-> code, body |-> body, applied |-> applied]

\* requireAuth: TRUE when it calls next().
requireAuth(appPassword, req) == ~appPassword \/ req.authenticated

\* requireCallbackSecret: TRUE when it calls next().
requireCallbackSecret(req) == req.secret = "correct"

\* The handler of the route.
CallbackHandler(req) ==
  CASE req.route = "log" ->
         IF req.jobId = 0 \/ ~req.level \/ ~req.message
         THEN Response(400, "Missing fields", "none")
         ELSE Response(200, "ok", "addLog")
    [] req.route = "status" ->
         IF req.jobId = 0
         THEN Response(400, "Missing jobId", "none")
         ELSE IF req.status # "" \/ req.fields
         THEN Response(200, "ok", "updateJob")
         ELSE Response(200, "ok", "none")
    [] req.route = "destroy" ->
         IF req.jobId = 0
         THEN Response(400, "Missing jobId", "none")
         ELSE Response(200, "ok", "destroyJobDroplet")

\* app.use(requireAuth) is registered before the callback routes, each of
\* which has requireCallbackSecret in front of its handler.
HandleCallback(appPassword, req) ==
  IF ~requireAuth(appPassword, req)
  THEN Response(200, "index.html", "none")
  ELSE IF ~requireCallbackSecret(req)
  THEN Response(401, "Unauthorized", "none")
  ELSE CallbackHandler(req)

ApplyCallback ==
  /\ fnName = "callback"
  /\ fnRes = <<>>
  /\ fnRes' = <<HandleCallback(fnArg[1], fnArg[2])>>
  /\ UNCHANGED fnFrame

\* ------------------------------------------------------------------------
\* _runLoop: the catch block around the loop body
\* ------------------------------------------------------------------------
MaxLoopFailures == 11   \* largest consecutiveFailures followed
LoopFailureLimit == 10

\* pc: "cycle" (runCheckCycle in progress), "cooldown" (the 5 minute sleep of
\* the catch block), "login" (its re-login), "wait" (the interval wait),
\* "hung" (a sleep whose timer stop() cleared), "exited" (the loop is left);
\* failures: health.consecutiveFailures; last: what happened last.
NoLoopCatch == [pc |-> "cycle", failures |-> 0, running |-> TRUE,
                sleepMs |-> 0, last |-> "none"]

\* CatchNeedsCooldown taking the limit for one more failure.
CatchNeedsCooldown_mut(failures) == failures > LoopFailureLimit

\* `if (this.health.consecutiveFailures >= 10)`
CatchNeedsCooldown(failures) == failures >= LoopFailureLimit

\* After the try/catch: `if (!this.running) break;`, then the interval wait.
AfterLoopBody(r) ==
  IF ~r.running
  THEN [r EXCEPT !.pc = "exited", !.sleepMs = 0]
  ELSE [r EXCEPT !.pc = "wait", !.sleepMs = IntervalWaitMs]

LoopCatchCall ==
  /\ fnName = "loopCatch"
  /\ fnRes = <<>>
  /\ fnRes' = <<[NoLoopCatch EXCEPT !.failures = fnArg[1]]>>
  /\ UNCHANGED fnFrame

\* runCheckCycle returns CONTINUE, the cycle counted as successful or failed.
LoopCatchCycleReturns ==
  /\ fnName = "loopCatch" /\ fnRes # <<>>
  /\ fnRes[1].pc = "cycle"
  /\ \E anySuccess \in BOOLEAN :
       /\ (~anySuccess => fnRes[1].failures < MaxLoopFailures)
       /\ fnRes' = <<AfterLoopBody([fnRes[1] EXCEPT
                        !.failures = IF anySuccess THEN 0 ELSE @ + 1,
                        !.last = "returned"])>>
  /\ UNCHANGED fnFrame

\* An exception escapes runCheckCycle: the catch block.
LoopCatchCycleThrows ==
  /\ fnName = "loopCatch" /\ fnRes # <<>>
  /\ fnRes[1].pc = "cycle"
  /\ fnRes[1].failures < MaxLoopFailures
  /\ LET r == [fnRes[1] EXCEPT !.failures = @ + 1, !.last = "threw"]
     IN  fnRes' = <<IF CatchNeedsCooldown(r.failures)
                    THEN [r EXCEPT !.pc = "cooldown", !.sleepMs = ReloginCooldownMs]
                    ELSE AfterLoopBody(r)>>
  /\ UNCHANGED fnFrame

\* The timer of the catch block's sleep(300000) fires: login() is called.
LoopCatchCooldownDone ==
  /\ fnName = "loopCatch" /\ fnRes # <<>>
  /\ fnRes[1].pc = "cooldown"
  /\ fnRes' = <<[fnRes[1] EXCEPT !.pc = "login", !.sleepMs = 0]>>
  /\ UNCHANGED fnFrame

\* `try { await this.login(); consecutiveFailures = 0 } catch (e) {}`
LoopCatchLoginDone ==
  /\ fnName = "loopCatch" /\ fnRes # <<>>
  /\ fnRes[1].pc = "login"
  /\ \E ok \in BOOLEAN :
       fnRes' = <<AfterLoopBody([fnRes[1] EXCEPT
                     !.failures = IF ok THEN 0 ELSE @,
                     !.last = IF ok THEN "loginOk" ELSE "loginFailed"])>>
  /\ UNCHANGED fnFrame

\* The timer of the interval wait fires: `while (this.running)`.
LoopCatchWaitDone ==
  /\ fnName = "loopCatch" /\ fnRes # <<>>
  /\ fnRes[1].pc = "wait"
  /\ fnRes' = <<[fnRes[1] EXCEPT !.pc = IF fnRes[1].running THEN "cycle" ELSE "exited",
                                 !.sleepMs = 0, !.last = "waited"]>>
  /\ UNCHANGED fnFrame

\* stop(): running = false; cancelSleep() clears the timer of a sleep in
\* progress, whose promise then never resolves.
LoopCatchStop ==
  /\ fnName = "loopCatch" /\ fnRes # <<>>
  /\ fnRes[1].running
  /\ fnRes[1].pc # "exited"
  /\ fnRes' = <<[fnRes[1] EXCEPT !.running = FALSE,
                                 !.pc = IF @ \in {"cooldown", "wait"} THEN "hung" ELSE @]>>
  /\ UNCHANGED fnFrame

\* ------------------------------------------------------------------------
\* totalChecks in memory and in the store, over the cycles of a run
\* ------------------------------------------------------------------------
MaxFlushChecks == 10    \* cycles followed

\* total: health.totalChecks; stored: totalChecks of the job row; pc: "loop"
\* (between cycles) or "cycle"; last: what the last cycle returned.
NoHealthFlush == [pc |-> "loop", total |-> 0, stored |-> 0, last |-> "NONE"]

\* The total the step leaves in the store.
FlushedTotal(out, total, stored) ==
  CASE out = "CONTINUE" -> IF total % SyncEvery = 0 THEN total ELSE stored
    [] out = "IP_BLOCKED" -> total
    [] out = "LOGIN_FAILED" -> stored

HealthFlushCall ==
  /\ fnName = "healthFlush"
  /\ fnRes = <<>>
  /\ fnRes' = <<NoHealthFlush>>
  /\ UNCHANGED fnFrame

\* runCheckCycle begins: `this.health.totalChecks++`; with no facility
\* configured it returns CONTINUE at once.
HealthFlushCycleStart ==
  /\ fnName = "healthFlush" /\ fnRes # <<>>
  /\ fnRes[1].pc = "loop"
  /\ fnRes[1].total < MaxFlushChecks
  /\ fnRes' = <<IF fnArg[1] = 0
                THEN [fnRes[1] EXCEPT !.total = @ + 1, !.last = "CONTINUE"]
                ELSE [fnRes[1] EXCEPT !.total = @ + 1, !.pc = "cycle"]>>
  /\ UNCHANGED fnFrame

\* runCheckCycle returns: after the last facility (accounting, the flush of
\* every 5th cycle, CONTINUE), from the IP block branch (syncHealth(), then
\* IP_BLOCKED) or from a failed re-login (LOGIN_FAILED).
HealthFlushCycleReturns ==
  /\ fnName = "healthFlush" /\ fnRes # <<>>
  /\ fnRes[1].pc = "cycle"
  /\ \E out \in {"CONTINUE", "IP_BLOCKED", "LOGIN_FAILED"} :
       fnRes' = <<[fnRes[1] EXCEPT
                     !.pc = "loop", !.last = out,
                     !.stored = FlushedTotal(out, fnRes[1].total, @)]>>
  /\ UNCHANGED fnFrame

\* The pure functions on their own: every input of the bounded sets is given
\* to the function named by fnName.
FnInputs ==
  [bookAppointment |-> {<<r>> : r \in BookResponses},
   intervalSchedule |-> Schedules \X (0..MaxElapsed) \X IntervalChoices,
   filterDatesInRange |-> {<<l>> : l \in FilterLists},
   retryDelay |-> (1..MaxAttempt) \X JitterChoices,
   fetchWithRetry |-> (0..MaxRetriesChoice) \X (0..MaxRetriesChoice),
   autoBook |-> {<<m>> : m \in MatchingLists},
   intervalRun |-> Schedules \X IntervalChoices,
   callback |-> BOOLEAN \X CallbackRequests,
   loopCatch |-> {<<n>> : n \in {0}},
   healthFlush |-> {<<n>> : n \in 0..1},
   checkDates |-> {<<r>> : r \in DaysResponses}]

InitFn ==
  /\ config = [autoBook |-> TRUE, nFac |-> 1, maxReloginAttempts |-> 2]
  /\ cap = [checks |-> 0, clear |-> 0]
  /\ InstanceInit
  /\ fnName \in DOMAIN FnInputs
  /\ fnArg \in FnInputs[fnName]
  /\ fnRes = <<>>
  /\ retry = NoRetry
  /\ NoJobManager

ApplyBookAppointment ==
  /\ fnName = "bookAppointment"
  /\ fnRes = <<>>
  /\ fnRes' = <<bookAppointment(fnArg[1]), bookAppointmentHttp(fnArg[1])>>
  /\ UNCHANGED fnFrame

\* checkDates: the error thrown or "OK", and the arrays it can then return.
ApplyCheckDates ==
  /\ fnName = "checkDates"
  /\ fnRes = <<>>
  /\ fnRes' = <<checkDates(fnArg[1]),
                IF checkDates(fnArg[1]) = "OK" THEN ReturnedLists(fnArg[1]) ELSE {}>>
  /\ UNCHANGED fnFrame

ApplyNextInterval ==
  /\ fnName = "intervalSchedule"
  /\ fnRes = <<>>
  /\ fnRes' = <<NextInterval(fnArg[1], fnArg[2], fnArg[3])>>
  /\ UNCHANGED fnFrame

\* filterDatesInRange, then again on what it returned (the array of strings
\* as it is, and the same dates as entries).
ApplyFilterDates ==
  /\ fnName = "filterDatesInRange"
  /\ fnRes = <<>>
  /\ LET once == filterDatesInRange(fnArg[1])
     IN  fnRes' = <<once, filterDatesInRange(AsStrings(once)),
                   filterDatesInRange(AsEntries(once))>>
  /\ UNCHANGED fnFrame

\* The delay after failed attempt n for both classes of failure, and the
\* socket-class base delay of the attempt after it.
ApplyRetryDelay ==
  /\ fnName = "retryDelay"
  /\ fnRes = <<>>
  /\ LET n == fnArg[1]
         jitter == fnArg[2]
     IN  fnRes' = <<[socketBase |-> baseDelay(TRUE, n),
                    otherBase |-> baseDelay(FALSE, n),
                    socketNext |-> baseDelay(TRUE, n + 1),
                    socketDelay |-> retryDelay(TRUE, n, jitter),
                    otherDelay |-> retryDelay(FALSE, n, jitter)]>>
  /\ UNCHANGED fnFrame

callFrame == <<config, running, health, loopPromise, flowVars, loginRet, cyc,
               blockCount, result, store, stopPc, hist, cap, fnName, fnArg,
               jmVars>>

\* After the while loop: `if (lastError) lastError._retriesExhausted = true;
\* throw lastError`.
RetryThrow(r) ==
  LET tagged == IF r.lastError = <<>> THEN <<>>
                ELSE <<[r.lastError[1] EXCEPT !.retriesExhausted = TRUE]>>
  IN  /\ retry' = [r EXCEPT !.pc = "thrown", !.lastError = tagged]
      /\ fnRes' = <<[ok |-> FALSE, error |-> tagged]>>

\* fetchWithRetry(url, options, maxRetries) is called: the first attempt is
\* under way.
RetryCall ==
  /\ fnName = "fetchWithRetry"
  /\ retry.pc = "idle"
  /\ LET max == EffectiveMaxRetries(fnArg[1], fnArg[2])
         r == [NoRetry EXCEPT !.maxRetries = max]
     IN  IF LoopTest(r.attempt, max)
         THEN /\ retry' = [r EXCEPT !.pc = "attempt", !.attempt = 1]
              /\ UNCHANGED fnRes
         ELSE RetryThrow(r)
  /\ UNCHANGED callFrame

\* The request of the current attempt settles: a response (returned at once)
\* or an error of either class.
RetryAttemptDone ==
  /\ retry.pc = "attempt"
  /\ \/ /\ retry' = [retry EXCEPT !.pc = "returned"]
        /\ fnRes' = <<[ok |-> TRUE, attempt |-> retry.attempt]>>
     \/ \E isSocketError \in BOOLEAN :
          LET err == [attempt |-> retry.attempt, isSocketError |-> isSocketError,
                      retriesExhausted |-> FALSE]
              r == [retry EXCEPT !.lastError = <<err>>]
          IN  IF ShouldRetry(r.attempt, r.maxRetries)
              THEN /\ \E jitter \in JitterChoices :
                        retry' = [r EXCEPT !.pc = "sleep", !.sleeps = @ + 1,
                                           !.delay = retryDelay(isSocketError, r.attempt, jitter)]
                   /\ UNCHANGED fnRes
              ELSE IF LoopTest(r.attempt, r.maxRetries)
              THEN /\ retry' = [r EXCEPT !.attempt = @ + 1]
                   /\ UNCHANGED fnRes
              ELSE RetryThrow(r)
  /\ UNCHANGED callFrame

\* The sleep before the next attempt is over: the loop test, then the next
\* attempt or the throw.
RetrySleepDone ==
  /\ retry.pc = "sleep"
  /\ IF LoopTest(retry.attempt, retry.maxRetries)
     THEN /\ retry' = [retry EXCEPT !.pc = "attempt", !.attempt = @ + 1, !.delay = 0]
          /\ UNCHANGED fnRes
     ELSE RetryThrow([retry EXCEPT !.delay = 0])
  /\ UNCHANGED callFrame

NextFn == \/ ApplyBookAppointment
          \/ RetryCall
          \/ RetryAttemptDone
          \/ RetrySleepDone
          \/ ApplyRetryDelay
          \/ ApplyNextInterval
          \/ ApplyFilterDates
          \/ AutoBookCall
          \/ AutoBookTimesDone
          \/ AutoBookBookDone
          \/ AutoBookStop
          \/ IntervalRunCall
          \/ IntervalRunTick
          \/ IntervalRunBlocked
          \/ IntervalRunCooldownDone
          \/ IntervalRunCycleDone
          \/ IntervalRunWaitDone
          \/ ApplyCallback
          \/ LoopCatchCall
          \/ LoopCatchCycleReturns
          \/ LoopCatchCycleThrows
          \/ LoopCatchCooldownDone
          \/ LoopCatchLoginDone
          \/ LoopCatchWaitDone
          \/ LoopCatchStop
          \/ HealthFlushCall
          \/ HealthFlushCycleStart
          \/ HealthFlushCycleReturns
          \/ ApplyCheckDates

SpecFn == InitFn /\ [][NextFn]_vars

\* Every network operation settles, every armed timer fires and stop() runs
\* on: the event loop starves none of them.
FairSpec == Spec /\ WF_vars(Flow) /\ WF_vars(TimerFire) /\ WF_vars(Stop)

\* ------------------------------------------------------------------------
\* JobManager in local mode, and the instances it starts
\* ------------------------------------------------------------------------
\* Every job has its own account: the session of job id is named by id.
\* Each job is fully configured (credentials, schedule and facilities are set).
JobIds == 1..MaxJobs

\* The instances are kept in slots.  A slot is free until an instance is
\* constructed in it, and again once its instance is garbage: start() and
\* stop() have returned on it and the instances map does not hold it.
Slots == 1..MaxInstances
Free == [jobId |-> 0, running |-> FALSE, pc |-> "free", stopPc |-> "idle"]
FreeSlots(in) == {i \in Slots : in[i] = Free}
Garbage(in, map, i) ==
  in[i].pc = "done" /\ in[i].stopPc = "idle" /\ map[in[i].jobId] # i
Collect(in, map) ==
  [i \in Slots |-> IF in[i] # Free /\ Garbage(in, map, i) THEN Free ELSE in[i]]

\* new SchedulerInstance(id), and start() called on it: start() is suspended
\* in `await loadModules()` with running still false.
NewInstance(id) ==
  [jobId |-> id, running |-> FALSE, pc |-> "start", stopPc |-> "idle"]

NewJob == [status |-> "stopped", bookedDate |-> FALSE]

InitJobs ==
  /\ instances = [id \in JobIds |-> 0]
  /\ inst = [i \in Slots |-> Free]
  /\ jobs = [id \in JobIds |-> NewJob]
  /\ cookies = 0
  /\ config = [autoBook |-> TRUE, nFac |-> 1, maxReloginAttempts |-> 2]
  /\ cap = [checks |-> 0, clear |-> 0]
  /\ InstanceInit
  /\ fnName = "none"
  /\ fnArg = <<>>
  /\ fnRes = <<>>
  /\ retry = NoRetry

jmFrame == <<config, running, health, loopPromise, flowVars, loginRet, cyc,
             blockCount, result, store, stopPc, hist, cap, fnVars>>

\* `existing && existing.running` for the entry of id in the instances map.
LiveInMap(id) == instances[id] # 0 /\ inst[instances[id]].running

\* The continuation of `await loadModules()` is a microtask: it runs before
\* the event loop hands over the next request or I/O completion.
MicrotasksDrained == \A i \in Slots : inst[i].pc # "start"

\* startJob(id): throws for a booked job and for a running instance in the
\* map; otherwise _startLocalJob constructs an instance, puts it in the map
\* and calls start() on it without awaiting it.
StartJobThrows(id) == jobs[id].status = "booked" \/ LiveInMap(id)

startJob(id) ==
  /\ MicrotasksDrained
  /\ IF StartJobThrows(id)
     THEN UNCHANGED <<instances, inst>>
     ELSE /\ FreeSlots(inst) # {}
          /\ LET i == CHOOSE k \in FreeSlots(inst) : \A m \in FreeSlots(inst) : k <= m
                 map == [instances EXCEPT ![id] = i]
             IN  /\ instances' = map
                 /\ inst' = Collect([inst EXCEPT ![i] = NewInstance(id)], map)
  /\ UNCHANGED <<jobs, cookies>>
  /\ UNCHANGED jmFrame

\* start() after `await loadModules()`: running = true, the stored status
\* becomes 'running', login() begins with initPage().
InstStart(i) ==
  /\ inst[i].pc = "start"
  /\ inst' = [inst EXCEPT ![i].running = TRUE, ![i].pc = "login"]
  /\ jobs' = [jobs EXCEPT ![inst[i].jobId].status = "running"]
  /\ UNCHANGED <<instances, cookies>>
  /\ UNCHANGED jmFrame

\* login() of start() has ended.  A successful login leaves the session
\* cookie of the job's account in the cookie store of the page's browser
\* context, which is the default context of sharedBrowser for every page
\* (`browser.newPage()`).  A failed one ends start() with status 'error'
\* (and closePage(), which changes nothing else).
InstLogin(i) ==
  /\ MicrotasksDrained
  /\ inst[i].pc = "login"
  /\ \/ /\ inst' = [inst EXCEPT ![i].pc = "loop"]
        /\ cookies' = inst[i].jobId
        /\ UNCHANGED jobs
     \/ /\ inst' = Collect([inst EXCEPT ![i].pc = "done", ![i].running = FALSE],
                           instances)
        /\ jobs' = [jobs EXCEPT ![inst[i].jobId].status = "error"]
        /\ UNCHANGED cookies
  /\ UNCHANGED <<instances>>
  /\ UNCHANGED jmFrame

\* The cookies that a request of instance i carries (checkDates, checkTimes,
\* bookAppointment): the fetch runs in the instance's page, and every page is
\* opened in the one default context of sharedBrowser.
SessionOf(i) == cookies

\* A re-login of a running loop that succeeds (after SESSION_EXPIRED, a
\* cooldown or LOGIN_FAILED).
InstRelogin(i) ==
  /\ MicrotasksDrained
  /\ inst[i].pc = "loop" /\ inst[i].running
  /\ cookies' = inst[i].jobId
  /\ UNCHANGED <<instances, inst, jobs>>
  /\ UNCHANGED jmFrame

\* A cycle of a running loop books: the booking fields and status 'booked'
\* are stored, running is cleared and the loop ends.
InstBooked(i) ==
  /\ MicrotasksDrained
  /\ inst[i].pc = "loop" /\ inst[i].running
  /\ inst' = Collect([inst EXCEPT ![i].pc = "done", ![i].running = FALSE],
                     instances)
  /\ jobs' = [jobs EXCEPT ![inst[i].jobId] =
                [status |-> "booked", bookedDate |-> TRUE]]
  /\ UNCHANGED <<instances, cookies>>
  /\ UNCHANGED jmFrame

\* The loop sees running = false and leaves (syncHealth(), closePage()).
InstLoopExit(i) ==
  /\ MicrotasksDrained
  /\ inst[i].pc = "loop" /\ ~inst[i].running
  /\ inst' = Collect([inst EXCEPT ![i].pc = "done"], instances)
  /\ UNCHANGED <<instances, jobs, cookies>>
  /\ UNCHANGED jmFrame

\* stopJob(id) up to `await instance.stop()`: stop() clears running and waits
\* for the loop (at most 5 s) and for closePage().  With no running instance
\* in the map the stored status is set to 'stopped' at once.
stopJob(id) ==
  /\ MicrotasksDrained
  /\ IF LiveInMap(id)
     THEN /\ inst' = [inst EXCEPT ![instances[id]].running = FALSE,
                                  ![instances[id]].stopPc = "pending"]
          /\ UNCHANGED jobs
     ELSE /\ jobs' = [jobs EXCEPT ![id].status = "stopped"]
          /\ UNCHANGED inst
  /\ UNCHANGED <<instances, cookies>>
  /\ UNCHANGED jmFrame

\* The rest of stop() and of stopJob(id): the stored status becomes 'stopped'
\* and `this.instances.delete(id)` removes whatever entry the map has for id.
StopJobDone(i) ==
  /\ MicrotasksDrained
  /\ inst[i].stopPc = "pending"
  /\ LET map == [instances EXCEPT ![inst[i].jobId] = 0]
     IN  /\ instances' = map
         /\ inst' = Collect([inst EXCEPT ![i].stopPc = "idle"], map)
  /\ jobs' = [jobs EXCEPT ![inst[i].jobId].status = "stopped"]
  /\ UNCHANGED cookies
  /\ UNCHANGED jmFrame

\* resetBooking(id): throws for a running instance in the map; otherwise sets
\* status 'stopped' and clears the booking fields.
resetBooking(id) ==
  /\ MicrotasksDrained
  /\ IF LiveInMap(id)
     THEN UNCHANGED jobs
     ELSE jobs' = [jobs EXCEPT ![id] = [status |-> "stopped", bookedDate |-> FALSE]]
  /\ UNCHANGED <<instances, inst, cookies>>
  /\ UNCHANGED jmFrame

NextJobs ==
  \/ \E id \in JobIds : startJob(id)
  \/ \E id \in JobIds : stopJob(id)
  \/ \E id \in JobIds : resetBooking(id)
  \/ \E i \in Slots : InstStart(i)
  \/ \E i \in Slots : InstLogin(i)
  \/ \E i \in Slots : InstRelogin(i)
  \/ \E i \in Slots : InstBooked(i)
  \/ \E i \in Slots : InstLoopExit(i)
  \/ \E i \in Slots : StopJobDone(i)

SpecJobs == InitJobs /\ [][NextJobs]_vars

\* One facility and a few cycles, for what stop() does at any point of a run.
MaxStopChecks == 2

InitStop ==
  /\ config \in {c \in Configs : c.nFac = 1}
  /\ cap = [checks |-> MaxStopChecks, clear |-> MaxStopChecks]
  /\ InstanceInit
  /\ fnName = "none"
  /\ fnArg = <<>>
  /\ fnRes = <<>>
  /\ retry = NoRetry
  /\ NoJobManager

FairSpecStop ==
  InitStop /\ [][Next]_vars /\ WF_vars(Flow) /\ WF_vars(TimerFire) /\ WF_vars(Stop)

\* The same runs when every awaited operation settles and every timer fires,
\* whether or not stop() is ever called.
FairSpecRun ==
  InitStop /\ [][Next]_vars /\ WF_vars(Flow) /\ WF_vars(TimerFire)

\* ------------------------------------------------------------------------
\* Properties
\* ------------------------------------------------------------------------
LoopSleeps == {"interval", "cooldown", "relogin_cooldown", "relogin_retry",
               "attempt_pause", "facility_pause", "partial_block_pause", "rate_limit"}

\* C1: when stop() is issued while the run loop is suspended in a timed sleep,
\* the loop resumes, sees running = false and exits: the loop eventually ends.
C1_StopEndsSleepingLoop ==
  (stopPc # "idle" /\ pc = "sleep" /\ sleepKind \in LoopSleeps /\ loopPromise = "pending")
    ~> (pc = "loop_done")

\* bookAppointment was called in the cycle and `b` is what it returned last.
LastBooking == IF hist.lastBook = <<>> THEN BookResult(FALSE, "no call")
               ELSE hist.lastBook[1]

\* C2: the cycle returns BOOKED, and the store holds status 'booked' and a
\* booking record, only when the bookAppointment call just made returned
\* success = true and verified = true; any other result (Ambiguous, still on
\* the form, any failure reason) leaves the cycle not BOOKED and the store
\* without a booking.
C2_BookedOnlyIfVerified ==
  /\ (result = "BOOKED") = (hist.lastBook # <<>> /\ LastBooking.success /\ LastBooking.verified)
  /\ store.booked = (result = "BOOKED")
  /\ (store.status = "booked" => store.booked)
  /\ (result = "BOOKED" => LastBooking.reason = "none")

C2_Witness == result = "BOOKED" /\ store.status = "booked" /\ store.booked

HasConfirmText(body) == body \cap ConfirmMarkers # {}

BookingPcs == {"checkTimes", "book", "book_submit"}

\* C4: with autoBook = false a cycle never asks for the times of a date, never
\* calls bookAppointment and never returns BOOKED, whatever the fetches return.
C4_NoBookingWithoutAutoBook ==
  ~config.autoBook =>
     /\ pc \notin BookingPcs
     /\ sleepRet \notin {"book_submit", "attempt_next"}
     /\ loginRet \notin {"book_result", "book_catch"}
     /\ hist.lastBook = <<>>
     /\ cyc.d = 0 /\ cyc.attempt = 0
     /\ result # "BOOKED"
     /\ ~store.booked

C4_Witness == ~config.autoBook /\ hist.matched /\ result = "CONTINUE"

Counted == health.successfulChecks + health.failedChecks

\* C5: successfulChecks + failedChecks never exceeds totalChecks: a step adds
\* at most one to totalChecks, and the two outcome counters together grow by
\* at most one per cycle, at the moment the cycle returns.
C5_CountersWithinTotal ==
  /\ [](Counted <= health.totalChecks)
  /\ [][/\ health'.totalChecks \in {health.totalChecks, health.totalChecks + 1}
        /\ health'.successfulChecks \in {health.successfulChecks, health.successfulChecks + 1}
        /\ health'.failedChecks \in {health.failedChecks, health.failedChecks + 1}
        /\ (Counted' # Counted =>
              /\ Counted' = Counted + 1
              /\ result = "NONE"
              /\ result' \in {"CONTINUE", "IP_BLOCKED"})]_vars

C5_Witness ==
  /\ health.totalChecks = 2
  /\ health.successfulChecks = 1
  /\ health.failedChecks = 1

\* The step in which runCheckCycle returns.
CycleEnds == result = "NONE" /\ result' # "NONE"

\* C6 as stated: a cycle with a successful open-days fetch adds one to
\* successfulChecks and resets consecutiveFailures; a cycle without one adds
\* one to failedChecks and consecutiveFailures and records the error.  (Taken
\* for jobs with facilities and runs in which stop() was never called.)
C6_EveryCycleCounted ==
  [][(CycleEnds /\ config.nFac > 0 /\ stopPc = "idle") =>
       IF hist'.fetchOk
       THEN /\ health'.successfulChecks = health.successfulChecks + 1
            /\ health'.consecutiveFailures = 0
       ELSE /\ health'.failedChecks = health.failedChecks + 1
            /\ health'.consecutiveFailures = health.consecutiveFailures + 1
            /\ health'.lastError \in {hist'.lastErr, "IP_BLOCKED"}]_vars

\* C6 amended: a cycle that visits all its facilities and returns CONTINUE is
\* counted as successful when a fetch succeeded (successfulChecks + 1,
\* consecutiveFailures = 0) and as failed otherwise (failedChecks + 1,
\* consecutiveFailures + 1, lastError = the last fetch error); a cycle that
\* returns IP_BLOCKED is counted as failed with lastError 'IP_BLOCKED'; a
\* cycle that returns STOPPED, BOOKED or LOGIN_FAILED, or has no facility to
\* visit, changes neither successfulChecks nor failedChecks.
C6_CompletedCyclesCounted ==
  [][CycleEnds =>
       CASE result' = "CONTINUE" /\ config.nFac > 0 ->
              IF hist'.fetchOk
              THEN /\ health'.successfulChecks = health.successfulChecks + 1
                   /\ health'.consecutiveFailures = 0
                   /\ health'.failedChecks = health.failedChecks
                   /\ health'.lastError = health.lastError
              ELSE /\ health'.failedChecks = health.failedChecks + 1
                   /\ health'.consecutiveFailures = health.consecutiveFailures + 1
                   /\ health'.lastError = hist'.lastErr
                   /\ health'.successfulChecks = health.successfulChecks
         [] result' = "IP_BLOCKED" ->
              /\ ~hist'.fetchOk
              /\ health'.failedChecks = health.failedChecks + 1
              /\ health'.consecutiveFailures = health.consecutiveFailures + 1
              /\ health'.lastError = "IP_BLOCKED"
              /\ health'.successfulChecks = health.successfulChecks
         [] OTHER ->
              /\ health'.successfulChecks = health.successfulChecks
              /\ health'.failedChecks = health.failedChecks
              /\ health'.lastError = health.lastError
              /\ (result' # "LOGIN_FAILED" =>
                    health'.consecutiveFailures = health.consecutiveFailures)]_vars

C6_Witness ==
  /\ result = "CONTINUE" /\ config.nFac = 2
  /\ ~hist.fetchOk
  /\ health.failedChecks = 1 /\ health.consecutiveFailures = 1
  /\ health.lastError = "CSRF_EXPIRED"

\* C7: for a job with facilities, the cycle returns IP_BLOCKED exactly when
\* every facility's open-days fetch of the cycle ended in a socket failure
\* after all retries, and health.lastError is then 'IP_BLOCKED'; with only
\* some facilities failing that way the cycle does not return IP_BLOCKED.
C7_BlockedIffAllSocketFailed ==
  config.nFac > 0 =>
     /\ (result = "IP_BLOCKED") = (hist.sockFailed = 1..config.nFac)
     /\ (result = "IP_BLOCKED" => health.lastError = "IP_BLOCKED" /\ ~hist.fetchOk)

C7_Witness ==
  /\ result = "IP_BLOCKED" /\ config.nFac = 2
  /\ hist.sockFailed = {1, 2}
  /\ health.lastError = "IP_BLOCKED"

Minutes(n) == n * 60 * 1000

\* C8: the cooldown slept after the k-th IP_BLOCKED outcome of a run is 5, 15,
\* 30 and 60 minutes for k = 1, 2, 3, 4 and 60 minutes for every later one; it
\* is never longer than 60 minutes.
C8_CooldownTiers ==
  (pc = "sleep" /\ sleepKind = "cooldown") =>
     /\ hist.blocks >= 1
     /\ sleepMs = CASE hist.blocks = 1 -> Minutes(5)
                    [] hist.blocks = 2 -> Minutes(15)
                    [] hist.blocks = 3 -> Minutes(30)
                    [] OTHER -> Minutes(60)
     /\ sleepMs <= Minutes(60)

C8_Witness ==
  /\ pc = "sleep" /\ sleepKind = "cooldown"
  /\ hist.blocks = 5
  /\ sleepMs = Minutes(60)

StartFailedPcs == {"start_close", "start_failed"}

\* C9: when the initial login of start() fails, the job is stored with status
\* 'error' and the failure message as lastError, running is false, the login
\* is not tried again and no check cycle is ever run.  (A stop() that was
\* already under way when the login failed still ends by storing 'stopped'.)
C9_InitialLoginFailure ==
  /\ [](pc \in StartFailedPcs =>
          /\ ~running
          /\ store.lastError \in LoginErrors \cup {"Could not load login page"}
          /\ (stopPc # "done" => store.status = "error")
          /\ store.status \in {"error", "stopped"}
          /\ health.totalChecks = 0
          /\ result = "NONE"
          /\ loopPromise = "null")
  /\ [][(loginRet = "start" /\ pc' \in StartFailedPcs) =>
          /\ store'.status = "error"
          /\ ~running'
          /\ (pc = "login" => store'.lastError = "Could not load login page")
          /\ (pc = "login_submit" => store'.lastError \in LoginErrors)]_vars
  /\ [][(pc \in StartFailedPcs) =>
          /\ pc' \in StartFailedPcs
          /\ loginRet' = "none"
          /\ store'.lastError = store.lastError
          /\ (health' = health)]_vars

C9_Witness ==
  /\ pc = "start_failed"
  /\ store.status = "error"
  /\ store.lastError = "Invalid email or password."
  /\ ~running /\ stopPc = "idle"

\* The refresh that follows a CSRF_EXPIRED error is under way.
InCsrfRefresh ==
  \/ pc = "csrf_refresh"
  \/ (pc = "sleep" /\ sleepKind = "locations_settle" /\ sleepRet = "next_fac")

\* C10: an open-days fetch answered with HTTP 422 fails with CSRF_EXPIRED; the
\* cycle then calls fetchLocations once, ignores its failure, and goes on with
\* the next facility (or ends normally after the last): it is not aborted and
\* the facility is not fetched again.
C10_CsrfRefreshThenNextFacility ==
  /\ [][(pc = "checkDates" /\ pc' # "checkDates" /\ hist'.lastStatus = 422) =>
          /\ pc' = "csrf_refresh"
          /\ cyc'.lastError = "CSRF_EXPIRED"
          /\ cyc'.i = cyc.i
          /\ result' = "NONE"]_vars
  /\ [](InCsrfRefresh => hist.lastStatus = 422 /\ cyc.lastError = "CSRF_EXPIRED")
  /\ [][(InCsrfRefresh /\ ~InCsrfRefresh') =>
          \/ /\ result' = "NONE"
             /\ cyc'.i = cyc.i + 1
             /\ pc' = "checkDates" \/ (pc' = "sleep" /\ sleepKind' = "facility_pause")
          \/ /\ result' = "CONTINUE"
             /\ cyc.i = config.nFac
          \/ /\ result' = "STOPPED"
             /\ ~running
             /\ cyc.i < config.nFac]_vars
  /\ [][(InCsrfRefresh /\ InCsrfRefresh') => (cyc' = cyc /\ (pc = "sleep" => pc' = "sleep"))]_vars

C10_Witness ==
  /\ pc = "checkDates" /\ cyc.i = 2
  /\ hist.lastStatus = 422
  /\ cyc.lastError = "CSRF_EXPIRED"
  /\ ~cyc.anySuccess
  /\ result = "NONE"

\* Minutes of the first k phases of a schedule.
RECURSIVE Cumulative(_, _)
Cumulative(schedule, k) ==
  IF k = 0 THEN 0 ELSE Cumulative(schedule, k - 1) + schedule[k].durationMinutes

ExampleSchedule == <<[seconds |-> 10, durationMinutes |-> 5],
                     [seconds |-> 60, durationMinutes |-> 55]>>

\* C11: with a schedule of phases, the interval at e minutes after the anchor
\* is the seconds of the first phase whose cumulative duration exceeds e, and
\* the anchor is kept; when e is at least the sum of all durations the anchor
\* is reset and the interval is that of the first phase.  For the schedule
\* 10 s for 5 min, 60 s for 55 min: 10 s at 4 min, 60 s at 6 min, reset and
\* 10 s at 61 min.
C11_IntervalSchedule ==
  (fnName = "intervalSchedule" /\ fnRes # <<>> /\ Len(fnArg[1]) > 0) =>
     LET schedule == fnArg[1]
         e == fnArg[2]
         over == {k \in 1..Len(schedule) : Cumulative(schedule, k) > e}
         res == fnRes[1]
     IN  /\ (over # {} =>
               /\ res.seconds = schedule[CHOOSE k \in over : \A j \in over : k <= j].seconds
               /\ ~res.reset)
         /\ (e >= Cumulative(schedule, Len(schedule)) =>
               /\ res.reset
               /\ res.seconds = schedule[1].seconds)
         /\ (schedule = ExampleSchedule =>
               /\ (e = 4 => res = [seconds |-> 10, reset |-> FALSE])
               /\ (e = 6 => res = [seconds |-> 60, reset |-> FALSE])
               /\ (e = 61 => res = [seconds |-> 10, reset |-> TRUE]))

C11_Witness ==
  /\ fnName = "intervalSchedule" /\ fnRes # <<>>
  /\ fnArg[1] = ExampleSchedule /\ fnArg[2] = 61
  /\ fnRes[1] = [seconds |-> 10, reset |-> TRUE]

\* How many entries of the list `dates` qualify with date v.
Qualifying(dates, v) ==
  Cardinality({k \in 1..Len(dates) : /\ dates[k].date = v
                                      /\ dates[k].business_day
                                      /\ v >= StartDate /\ v <= EndDate})

Occurrences(out, v) == Cardinality({k \in 1..Len(out) : out[k] = v})

\* C12: filterDatesInRange returns exactly the dates of the entries that are
\* business days within [startDate, endDate], both ends included, in
\* ascending order; a day that is not a business day is left out.
C12_FilterDatesInRange ==
  (fnName = "filterDatesInRange" /\ fnRes # <<>>) =>
     LET dates == fnArg[1]
         out == fnRes[1]
     IN  /\ \A v \in (StartDate - 1)..(EndDate + 1) :
               Occurrences(out, v) = Qualifying(dates, v)
         /\ \A k \in 1..Len(out) : out[k] \in StartDate..EndDate
         /\ \A j, k \in 1..Len(out) : j < k => out[j] <= out[k]

C12_Witness ==
  /\ fnName = "filterDatesInRange" /\ fnRes # <<>>
  /\ fnArg[1] = <<[date |-> EndDate, business_day |-> TRUE],
                  [date |-> StartDate, business_day |-> FALSE],
                  [date |-> StartDate, business_day |-> TRUE]>>
  /\ fnRes[1] = <<StartDate, EndDate>>

\* C13 as stated: filterDatesInRange applied to its own output returns what
\* one application returned.
C13_FilterIdempotent ==
  (fnName = "filterDatesInRange" /\ fnRes # <<>>) => fnRes[2] = fnRes[1]

\* C13 amended: filtering again the returned dates, taken as business-day
\* entries, returns the same sorted list; applied to the returned array
\* itself, whose elements are date strings without business_day, the
\* function returns the empty list.
C13_FilterIdempotentOnEntries ==
  (fnName = "filterDatesInRange" /\ fnRes # <<>>) =>
     /\ fnRes[3] = fnRes[1]
     /\ fnRes[2] = <<>>

C13_Witness ==
  /\ fnName = "filterDatesInRange" /\ fnRes # <<>>
  /\ Len(fnArg[1]) = 3
  /\ fnRes[1] = <<StartDate, EndDate>>
  /\ fnRes[3] = <<StartDate, EndDate>>
  /\ fnRes[2] = <<>>

\* C14: the base delay after failed attempt n is min(5 s * 2^(n-1), 60 s) for a
\* socket-class failure and min(1 s * 2^(n-1), 10 s) otherwise; the
\* socket-class delay does not decrease with n, is at most 60 s and is
\* greater than the other delay at the same n; the jitter is below 2 s.
C14_RetryDelays ==
  (fnName = "retryDelay" /\ fnRes # <<>>) =>
     LET n == fnArg[1]
         r == fnRes[1]
         cappedAt(x, top) == IF x < top THEN x ELSE top
     IN  /\ r.socketBase = cappedAt(5000 * 2^(n - 1), 60000)
         /\ r.otherBase = cappedAt(1000 * 2^(n - 1), 10000)
         /\ r.socketBase <= r.socketNext
         /\ r.socketBase <= 60000
         /\ r.socketBase > r.otherBase
         /\ r.socketDelay - r.socketBase \in 0..1999
         /\ r.otherDelay - r.otherBase \in 0..1999

C14_Witness ==
  /\ fnName = "retryDelay" /\ fnRes # <<>>
  /\ fnArg[1] = 5
  /\ fnRes[1].socketBase = 60000
  /\ fnRes[1].otherBase = 10000
  /\ fnRes[1].socketDelay = 61999

\* C15: a retried call makes at most maxRetries attempts (3 when neither the
\* argument nor the configuration gives it) and returns at the first attempt
\* that succeeds; when every attempt fails it throws the last error tagged
\* retries-exhausted; it does not sleep after the last attempt; an error is
\* tagged only when maxRetries attempts were made.
C15_RetryBounded ==
  /\ []((fnName = "fetchWithRetry" /\ retry.pc # "idle") =>
          LET max == IF fnArg[1] # 0 THEN fnArg[1]
                     ELSE IF fnArg[2] # 0 THEN fnArg[2] ELSE 3
          IN  /\ retry.maxRetries = max
              /\ retry.attempt \in 1..max
              /\ (retry.pc = "sleep" =>
                    retry.attempt < max /\ retry.sleeps = retry.attempt)
              /\ (retry.pc # "sleep" => retry.sleeps = retry.attempt - 1)
              /\ (retry.pc = "returned" =>
                    /\ fnRes = <<[ok |-> TRUE, attempt |-> retry.attempt]>>
                    /\ (retry.attempt > 1 => retry.lastError[1].attempt = retry.attempt - 1))
              /\ (retry.pc = "thrown" =>
                    /\ retry.attempt = max
                    /\ retry.sleeps = max - 1
                    /\ fnRes # <<>> /\ ~fnRes[1].ok
                    /\ fnRes[1].error = retry.lastError
                    /\ retry.lastError[1].attempt = max
                    /\ retry.lastError[1].retriesExhausted)
              /\ ((retry.lastError # <<>> /\ retry.lastError[1].retriesExhausted) =>
                    retry.pc = "thrown" /\ retry.attempt = max)
              /\ (retry.pc \in {"attempt", "sleep"} => fnRes = <<>>))
  /\ [][(retry.pc \in {"returned", "thrown"}) => retry' = retry /\ fnRes' = fnRes]_vars

C15_Witness ==
  /\ fnName = "fetchWithRetry" /\ fnArg = <<0, 0>>
  /\ retry.pc = "thrown"
  /\ retry.attempt = 3 /\ retry.sleeps = 2
  /\ retry.lastError[1].retriesExhausted

\* The run has ended (the loop has exited, or start() has returned after a
\* failed login) and no stop() is under way.
RunEnded == pc \in {"loop_done", "start_failed"} /\ stopPc \in {"idle", "done"}

\* C16: once a started run has ended and any stop() has completed, the stored
\* status is stopped, booked or error, never still running; with status error
\* the reason of the failure is the stored lastError.
C16_TerminalStatus ==
  RunEnded =>
     /\ store.status \in {"stopped", "booked", "error"}
     /\ (store.status = "error" =>
           /\ pc = "start_failed"
           /\ store.lastError \in LoginErrors \cup {"Could not load login page"})
     /\ (store.status = "booked" => store.booked)
     /\ ~running

C16_Witness ==
  /\ pc = "loop_done" /\ stopPc = "done"
  /\ store.status = "stopped"
  /\ health.totalChecks = 2

\* The step in which runCheckCycle returns LOGIN_FAILED to _runLoop: the
\* re-login made inside the cycle for SESSION_EXPIRED has failed.
ReturnsLoginFailed ==
  loginRet = "cycle" /\ loginRet' # "cycle" /\ result' = "LOGIN_FAILED"

ReloginExhausted == health.consecutiveFailures >= MaxRelogin(config)

\* C17 (as stated): once consecutiveFailures has reached maxReloginAttempts,
\* a LOGIN_FAILED cycle is fatal for the run: the loop stops and the job is
\* left in state error.
C17_ReloginExhaustedIsFatal ==
  [][(ReturnsLoginFailed /\ ReloginExhausted) =>
        (~running' /\ store'.status = "error" /\ pc' # "sleep")]_vars

\* C17 (amended): a LOGIN_FAILED cycle never ends the run.  The loop sleeps
\* 5 minutes and resets consecutiveFailures when the count has reached
\* maxReloginAttempts, and 60 seconds otherwise; then it logs in again, the
\* stored status unchanged; a failed re-login adds one to consecutiveFailures,
\* a successful one resets it, and the loop goes on unless it was stopped.
C17_ReloginRetriedAfterCooldown ==
  /\ [][ReturnsLoginFailed =>
          /\ pc' = "sleep" /\ sleepRet' = "login" /\ loginRet' = "loginfailed"
          /\ running' = running
          /\ store' = store
          /\ IF ReloginExhausted
             THEN /\ sleepMs' = 300000
                  /\ health' = [health EXCEPT !.consecutiveFailures = 0]
             ELSE /\ sleepMs' = 60000
                  /\ health' = health]_vars
  /\ [][(loginRet = "loginfailed" /\ loginRet' # "loginfailed") =>
          /\ health'.consecutiveFailures \in {0, health.consecutiveFailures + 1}
          /\ store'.status = store.status
          /\ running' = running
          /\ (running /\ health.totalChecks < cap.checks
                      /\ health.totalChecks - blockCount < cap.clear
                => health'.totalChecks = health.totalChecks + 1)]_vars

\* The loop is in its 5 minute sleep after re-login was exhausted, the job
\* still running.
C17_Witness ==
  /\ pc = "sleep" /\ sleepMs = 300000 /\ loginRet = "loginfailed"
  /\ health.consecutiveFailures = 0
  /\ running /\ store.status = "running"

\* The running instances of job id.
RunningInstances(id) == {i \in Slots : inst[i].jobId = id /\ inst[i].running}

\* The job for which this step constructs an instance, 0 if it constructs none.
Constructed ==
  IF \E i \in Slots : inst[i].pc # "start" /\ inst'[i].pc = "start"
  THEN inst'[CHOOSE i \in Slots : inst[i].pc # "start" /\ inst'[i].pc = "start"].jobId
  ELSE 0

\* C18: no job ever has two instances with running = true (startJob(id)
\* constructs no instance while a running instance of id exists).
C18_NoTwoRunningInstances ==
  \A id \in JobIds : Cardinality(RunningInstances(id)) <= 1

\* C19: every request of an instance runs under the session of its own job.
C19_SessionPerJob ==
  \A i \in Slots :
     (inst[i].pc = "loop" /\ inst[i].running) => SessionOf(i) = inst[i].jobId

\* C20: no instance is started for a job whose stored status is 'booked', nor
\* for a job whose booking fields resetBooking has not cleared.
C20_BookedNeedsReset ==
  [][Constructed # 0 =>
       jobs[Constructed].status # "booked" /\ ~jobs[Constructed].bookedDate]_vars

\* The open-days fetch of the current facility settles in this step and
\* throws e ("OK": it returns).
FetchSettles(e) == pc = "checkDates" /\ pc' # "checkDates" /\ hist'.lastOut = e

\* The facility whose open-days fetch is requested next is f: the request is
\* in flight, or the pause in front of it is.
AboutToFetch(f) ==
  /\ cyc'.i = f
  /\ \/ pc' = "checkDates"
     \/ pc' = "sleep" /\ sleepKind' = "facility_pause" /\ sleepRet' = "checkDates"

\* C22: a SESSION_EXPIRED open-days fetch is followed at once by a re-login;
\* when it succeeds the same facility is fetched again (unless the job was
\* stopped meanwhile), when it fails the cycle returns LOGIN_FAILED with the
\* remaining facilities unvisited.
C22_SessionExpiredRetriesSameFacility ==
  /\ [][FetchSettles("SESSION_EXPIRED") =>
          /\ pc' = "login" /\ loginRet' = "cycle"
          /\ cyc'.i = cyc.i
          /\ health' = health]_vars
  /\ []((loginRet = "cycle") =>
          /\ pc \in {"login", "login_submit"} \/ (pc = "sleep" /\ sleepKind = "login_settle")
          /\ hist.lastOut = "SESSION_EXPIRED")
  /\ [][(loginRet = "cycle" /\ loginRet' # "cycle") =>
          \/ /\ running
             /\ AboutToFetch(cyc.i)
             /\ result' = "NONE"
             /\ cyc'.anySuccess = cyc.anySuccess
             /\ cyc'.socketFailCount = cyc.socketFailCount
          \/ /\ ~running
             /\ result' = "STOPPED"
          \/ /\ result' = "LOGIN_FAILED"
             /\ cyc' = NoCycle
             /\ pc' = "sleep" /\ sleepKind' \in {"relogin_retry", "relogin_cooldown"}
             /\ health'.failedChecks = health.failedChecks
             /\ health'.totalChecks = health.totalChecks]_vars

\* The second of two facilities is being fetched again after its fetch ended
\* SESSION_EXPIRED and the re-login succeeded.
C22_Witness ==
  /\ pc = "checkDates" /\ cyc.i = 2 /\ config.nFac = 2
  /\ hist.lastOut = "SESSION_EXPIRED"
  /\ running

\* Fetch errors that are handled within the facility's iteration.
LocalErrors == {"RATE_LIMITED", "CSRF_EXPIRED", "HTTP_ERROR", "PARSE_ERROR",
                "NETWORK_ERROR", "SOCKET_EXHAUSTED"}

\* The cycle goes on from facility f - 1 to facility f: f is fetched next or,
\* when f - 1 was the last one, the cycle ends CONTINUE; a job stopped in the
\* meantime returns STOPPED at the top of the facility loop instead.
GoesOnTo(f) ==
  IF f > config.nFac THEN result' = "CONTINUE" /\ cyc' = NoCycle
  ELSE IF running THEN AboutToFetch(f) /\ result' = "NONE"
  ELSE result' = "STOPPED"

\* The pause or refresh that the catch block of a facility awaits.
InErrorHandler ==
  \/ pc = "sleep" /\ sleepKind \in {"rate_limit", "partial_block_pause"}
  \/ InCsrfRefresh

\* C23: a fetch failure other than SESSION_EXPIRED, and other than the socket
\* failure that completes an IP block, does not end the cycle: the facilities
\* after it are visited in order; RATE_LIMITED is followed by a pause of 5
\* minutes, an exhausted socket failure by a pause of 8 s or more, CSRF_EXPIRED
\* by the facility-list refresh.
C23_LocalFailureKeepsCycle ==
  /\ [][(\E e \in LocalErrors : FetchSettles(e)) =>
          LET e == hist'.lastOut
              block == e = "SOCKET_EXHAUSTED" /\
                       IpBlockDetected(cyc.socketFailCount + 1, config.nFac)
          IN  CASE block -> result' = "IP_BLOCKED"
                [] e = "RATE_LIMITED" ->
                     /\ pc' = "sleep" /\ sleepKind' = "rate_limit"
                     /\ sleepMs' = 5 * 60 * 1000
                     /\ cyc'.i = cyc.i /\ result' = "NONE"
                [] e = "SOCKET_EXHAUSTED" /\ ~block ->
                     /\ pc' = "sleep" /\ sleepKind' = "partial_block_pause"
                     /\ sleepMs' >= 8000
                     /\ cyc'.i = cyc.i /\ result' = "NONE"
                [] e = "CSRF_EXPIRED" ->
                     /\ pc' = "csrf_refresh"
                     /\ cyc'.i = cyc.i /\ result' = "NONE"
                [] OTHER -> GoesOnTo(cyc.i + 1)]_vars
  /\ [][(InErrorHandler /\ ~InErrorHandler') => GoesOnTo(cyc.i + 1)]_vars

\* The second facility is fetched after the first one was rate limited.
C23_Witness ==
  /\ pc = "checkDates" /\ cyc.i = 2
  /\ hist.lastOut = "RATE_LIMITED"

\* C24: the auto-book sub-sequence of one facility visit tries only the first
\* 3 matching dates, in order, each at most 3 times, so it calls
\* bookAppointment at most 9 times; a date with no open time is left at once
\* without a bookAppointment call; bookAppointment is always called with the
\* first listed time; the first verified booking returns BOOKED.
C24_AutoBookBounded ==
  /\ []((fnName = "autoBook" /\ fnRes # <<>>) =>
          LET r == fnRes[1]
              matching == fnArg[1]
          IN  /\ r.calls <= 9
              /\ (r.d # 0 =>
                    /\ r.d \in 1..3 /\ r.d <= Len(matching)
                    /\ r.attempt \in 1..3
                    /\ r.calls <= 3 * (r.d - 1) + r.attempt)
              /\ (r.pc = "book" =>
                    /\ r.times # <<>>
                    /\ r.call = <<matching[r.d], Head(r.times)>>
                    /\ r.calls >= 1)
              /\ (r.call # <<>> => \E k \in 1..3 : k <= r.d /\ r.call[1] = matching[k])
              /\ (r.result = "BOOKED" <=> r.last = "verified")
              /\ (r.result = "BOOKED" => r.pc = "done" /\ r.booked = r.call)
              /\ (r.result # "BOOKED" => r.booked = <<>>)
              /\ (r.result = "NOT_BOOKED" /\ Len(matching) > 0 =>
                    r.last \in {"noTimes", "timesError", "notVerified", "bookError"}))
  /\ [][(fnName = "autoBook" /\ fnRes # <<>> /\ fnRes' # fnRes) =>
          LET r == fnRes[1]
              q == fnRes'[1]
          IN  /\ (r.pc = "times" /\ q.pc # "times" /\ q.last = "noTimes" /\ q.running = r.running =>
                    /\ q.calls = r.calls
                    /\ (q.pc = "done" \/ (q.d = r.d + 1 /\ q.attempt = 1)))
              /\ (r.pc = "book" /\ q.last = "verified" =>
                    q.pc = "done" /\ q.result = "BOOKED" /\ q.calls = r.calls)
              /\ (r.pc = "done" => FALSE)
              /\ q.d >= r.d
              /\ q.calls \in {r.calls, r.calls + 1}]_vars

\* Nine bookAppointment calls were made on the first three of four matching
\* dates, none verified, and the fourth date was not tried.
C24_Witness ==
  /\ fnName = "autoBook" /\ fnRes # <<>>
  /\ Len(fnArg[1]) = 4
  /\ fnRes[1].calls = 9
  /\ fnRes[1].result = "NOT_BOOKED"
  /\ fnRes[1].call[1] = fnArg[1][3]

\* C25: a cycle during which stop was signalled returns STOPPED, not CONTINUE,
\* and does no health accounting after the signal.
C25_StoppedCycleReturnsStopped ==
  [][(cyc.i # 0 /\ cyc'.i = 0 /\ ~running) =>
       (result' = "STOPPED" /\ health' = health)]_vars

\* The step calls sleep(): a timer is armed that was not pending before.
SleepBegins ==
  /\ pc' = "sleep"
  /\ timerPending'
  /\ (pc # "sleep" \/ sleepKind' # sleepKind \/ health' # health)

\* C26: once stop has been signalled the job never begins a new timed sleep.
C26_NoSleepAfterStop ==
  [][(stopPc # "idle") => ~SleepBegins]_vars

\* C27: after a cycle returns LOGIN_FAILED the loop sleeps 5 minutes and
\* resets consecutiveFailures when the count has reached maxReloginAttempts
\* (5 when unset), and sleeps 60 seconds otherwise; then it logs in again,
\* consecutiveFailures becoming 0 on success and one more on failure, and the
\* next cycle starts with no interval wait.
C27_LoginFailedBackoff ==
  /\ [][ReturnsLoginFailed =>
          /\ pc' = "sleep" /\ timerPending' /\ sleepRet' = "login"
          /\ loginRet' = "loginfailed"
          /\ IF health.consecutiveFailures >=
                  (IF config.maxReloginAttempts = 0 THEN 5
                   ELSE config.maxReloginAttempts)
             THEN /\ sleepMs' = 5 * 60 * 1000
                  /\ health' = [health EXCEPT !.consecutiveFailures = 0]
             ELSE /\ sleepMs' = 60 * 1000
                  /\ health' = health]_vars
  /\ [](loginRet = "loginfailed" => (pc \in {"sleep", "login", "login_submit"}))
  /\ [][(loginRet = "loginfailed" /\ pc = "sleep" /\ pc' # "sleep"
                                   /\ sleepKind # "login_settle") =>
          (pc' = "login" /\ health' = health)]_vars
  /\ [][(loginRet = "loginfailed" /\ loginRet' # "loginfailed") =>
          /\ (pc \in {"login", "login_submit"})
          /\ (hist'.lastLogin \in {"ok", "failed"})
          /\ health'.consecutiveFailures =
               (IF hist'.lastLogin = "ok" THEN 0
                ELSE health.consecutiveFailures + 1)
          /\ IF running
             THEN /\ health'.totalChecks = health.totalChecks + 1
                  /\ pc' = "checkDates" /\ ~timerPending'
             ELSE pc' = "loop_close"]_vars

\* maxReloginAttempts is unset, five cycles in a row have failed and the next
\* returned LOGIN_FAILED: the loop is in the 5 minute sleep, the count reset.
C27_Witness ==
  /\ config.maxReloginAttempts = 0
  /\ loginRet = "loginfailed"
  /\ pc = "sleep" /\ sleepMs = 5 * 60 * 1000
  /\ health.consecutiveFailures = 0
  /\ health.failedChecks = 5
  /\ running

\* C28 (as stated): after every IP_BLOCKED cooldown sleep the loop attempts a
\* re-login and consecutiveFailures is 0 when the next cycle starts.
C28_CooldownResetsFailures ==
  /\ [][(loginRet = "cooldown" /\ pc = "sleep" /\ sleepKind = "cooldown"
                               /\ pc' # "sleep") => pc' = "login"]_vars
  /\ [][(loginRet = "cooldown" /\ loginRet' # "cooldown") =>
          health'.consecutiveFailures = 0]_vars

\* C28 (amended): after every IP_BLOCKED cooldown sleep the loop attempts a
\* re-login; consecutiveFailures is reset to 0 if the re-login succeeds and
\* keeps its value if it fails; the next cycle starts with no interval wait.
C28_CooldownResetsFailuresOnSuccess ==
  /\ [](loginRet = "cooldown" => (pc \in {"sleep", "login", "login_submit"}))
  /\ [][(loginRet = "cooldown" /\ pc = "sleep" /\ sleepKind = "cooldown"
                               /\ pc' # "sleep") =>
          (pc' = "login" /\ health' = health)]_vars
  /\ [][(loginRet = "cooldown" /\ loginRet' # "cooldown") =>
          /\ (pc \in {"login", "login_submit"})
          /\ (hist'.lastLogin \in {"ok", "failed"})
          /\ health'.consecutiveFailures =
               (IF hist'.lastLogin = "ok" THEN 0 ELSE health.consecutiveFailures)
          /\ (running => health'.totalChecks = health.totalChecks + 1
                         /\ ~timerPending')]_vars

\* The first cycle returned IP_BLOCKED, the re-login after the cooldown
\* failed, and the second cycle has started with consecutiveFailures still 1.
C28_Witness ==
  /\ hist.lastLogin = "failed"
  /\ hist.blocks = 1 /\ blockCount = 1
  /\ health.totalChecks = 2
  /\ health.consecutiveFailures = 1
  /\ pc = "checkDates"
  /\ running

\* The step ends a cooldown of the schedule-tracking run.
CooldownEnds ==
  /\ fnName = "intervalRun" /\ fnRes # <<>>
  /\ fnRes[1].pc = "cooldown" /\ fnRes'[1].pc = "cycle"

\* The step computes the first interval since a cooldown, with a schedule.
FirstWaitAfterCooldown ==
  /\ fnName = "intervalRun" /\ fnRes # <<>>
  /\ fnRes[1].pc = "cycle" /\ fnRes[1].first /\ fnRes'[1].pc = "wait"
  /\ Len(fnArg[1]) > 0

\* C29 (as stated): every IP_BLOCKED cooldown resets the interval schedule
\* (anchor = now, phase 0), and the next interval wait uses the seconds of
\* phase 0.
C29_CooldownRestartsAtPhase0 ==
  /\ [][CooldownEnds => (fnRes'[1].elapsed = 0 /\ fnRes'[1].index = 0)]_vars
  /\ [][FirstWaitAfterCooldown => fnRes'[1].seconds = fnArg[1][1].seconds]_vars

\* C29 (amended): every IP_BLOCKED cooldown resets the interval schedule
\* (anchor = now, phase 0).  The next interval wait uses the seconds of phase
\* 0 if the cycle after the cooldown ends before phase 0's duration has
\* passed since the reset, or after the whole schedule has; otherwise it uses
\* the seconds of the later phase the elapsed time falls in.
C29_CooldownResetsAnchor ==
  /\ [][CooldownEnds => (fnRes'[1].elapsed = 0 /\ fnRes'[1].index = 0)]_vars
  /\ [][FirstWaitAfterCooldown =>
          /\ ((fnRes[1].elapsed < fnArg[1][1].durationMinutes
               \/ fnRes[1].elapsed >= Cumulative(fnArg[1], Len(fnArg[1])))
                => fnRes'[1].seconds = fnArg[1][1].seconds)
          /\ \A k \in 2..Len(fnArg[1]) :
               (fnRes[1].elapsed >= Cumulative(fnArg[1], k - 1)
                /\ fnRes[1].elapsed < Cumulative(fnArg[1], k))
                 => (fnRes'[1].seconds = fnArg[1][k].seconds
                     /\ fnRes'[1].index = k - 1)]_vars

\* The cycle after a cooldown lasted 5 minutes, as long as phase 0 of the
\* schedule 10 s for 5 min, 60 s for 55 min: the wait that follows is 60 s.
C29_Witness ==
  /\ fnName = "intervalRun" /\ fnRes # <<>>
  /\ fnArg[1] = ExampleSchedule
  /\ fnRes[1].pc = "wait" /\ fnRes[1].first
  /\ fnRes[1].elapsed = 5
  /\ fnRes[1].index = 1
  /\ fnRes[1].seconds = 60

\* C30: the block counter of a run never decreases, and a successful cycle
\* does not reset it; the socket-failure counter of a cycle starts at 0.
C30_Counters ==
  /\ [][blockCount' \in {blockCount, blockCount + 1}]_vars
  /\ [][(result' = "CONTINUE" /\ cyc.i # 0 /\ cyc'.i = 0) =>
          blockCount' = blockCount]_vars
  /\ [][(blockCount' # blockCount) => result' = "IP_BLOCKED"]_vars
  /\ [][(cyc.i = 0 /\ cyc'.i # 0) =>
          (cyc'.i = 1 /\ cyc'.socketFailCount = 0 /\ hist'.sockFailed = {})]_vars

\* The first cycle was blocked and the second, over two facilities, had a
\* successful fetch and has returned CONTINUE: the block counter is still 1.
C30_Witness ==
  /\ blockCount = 1
  /\ health.totalChecks = 2
  /\ health.successfulChecks = 1
  /\ result = "CONTINUE"
  /\ config.nFac = 2
  /\ pc = "sleep" /\ sleepKind = "interval"

\* The body has what the route's handler asks for and something to apply.
CallbackComplete(req) ==
  /\ req.jobId # 0
  /\ (req.route = "log" => req.level /\ req.message)
  /\ (req.route = "status" => req.status # "" \/ req.fields)

\* C21: a callback without the correct secret changes nothing, and a callback
\* with the correct secret and a job id is accepted and applied, whether or
\* not a dashboard password is configured.
C21_CallbackAppliedIffSecret ==
  (fnName = "callback" /\ fnRes # <<>>) =>
     /\ (fnArg[2].secret # "correct" => fnRes[1].applied = "none")
     /\ (fnArg[2].secret = "correct" /\ CallbackComplete(fnArg[2]) =>
           /\ fnRes[1].code = 200 /\ fnRes[1].body = "ok"
           /\ fnRes[1].applied # "none")

\* C31: an exception that escapes runCheckCycle never ends the loop: it adds
\* one to consecutiveFailures; from 10 on the loop sleeps 5 minutes and logs
\* in again, resetting the count only if the login succeeds; then the loop
\* goes on with the interval wait.
C31_LoopSurvivesException ==
  /\ [][(fnName = "loopCatch" /\ fnRes # <<>> /\ fnRes[1].pc = "cycle"
         /\ fnRes'[1].last = "threw" /\ fnRes'[1].pc # "cycle") =>
          /\ fnRes'[1].failures = fnRes[1].failures + 1
          /\ IF fnRes[1].failures + 1 >= 10
             THEN fnRes'[1].pc = "cooldown" /\ fnRes'[1].sleepMs = 5 * 60 * 1000
             ELSE IF fnRes[1].running
             THEN fnRes'[1].pc = "wait" /\ fnRes'[1].sleepMs = IntervalWaitMs
             ELSE fnRes'[1].pc = "exited"]_vars
  /\ [][(fnName = "loopCatch" /\ fnRes # <<>> /\ fnRes[1].pc = "cooldown"
         /\ fnRes'[1].pc \notin {"cooldown", "hung"}) =>
          (fnRes'[1].pc = "login" /\ fnRes'[1].failures = fnRes[1].failures)]_vars
  /\ [][(fnName = "loopCatch" /\ fnRes # <<>> /\ fnRes[1].pc = "login"
         /\ fnRes'[1].pc # "login") =>
          /\ (fnRes'[1].last \in {"loginOk", "loginFailed"})
          /\ fnRes'[1].failures =
               (IF fnRes'[1].last = "loginOk" THEN 0 ELSE fnRes[1].failures)
          /\ IF fnRes[1].running
             THEN fnRes'[1].pc = "wait" /\ fnRes'[1].sleepMs = IntervalWaitMs
             ELSE fnRes'[1].pc = "exited"]_vars
  /\ []((fnName = "loopCatch" /\ fnRes # <<>> /\ fnRes[1].pc = "exited") =>
          ~fnRes[1].running)

\* The tenth failure in a row was an exception, the re-login after the
\* 5 minute sleep failed, and the loop is in its interval wait, the count
\* still 10.
C31_Witness ==
  /\ fnName = "loopCatch" /\ fnRes # <<>>
  /\ fnRes[1].pc = "wait"
  /\ fnRes[1].last = "loginFailed"
  /\ fnRes[1].failures = 10
  /\ fnRes[1].running

\* C32: BOOKED is terminal for the run: the step in which runCheckCycle
\* returns BOOKED clears running, flushes health and leaves the loop, and
\* from then on the instance starts no cycle, login, fetch or booking.
C32_BookedIsTerminal ==
  /\ [][(result # "BOOKED" /\ result' = "BOOKED") =>
          /\ ~running'
          /\ pc' = "loop_close" /\ ~timerPending'
          /\ store'.totalChecks = health'.totalChecks
          /\ store'.lastError = health'.lastError
          /\ store'.status = "booked"]_vars
  /\ [](result = "BOOKED" =>
          (~running /\ (pc \in {"loop_close", "loop_done"}) /\ ~timerPending))
  /\ [][(result = "BOOKED") =>
          (result' = "BOOKED" /\ health' = health /\ cyc' = cyc
           /\ running' = running /\ (pc' \in {pc, "loop_done"}))]_vars

\* The run has ended after a booking: the loop has returned.
C32_Witness ==
  /\ result = "BOOKED"
  /\ pc = "loop_done"
  /\ loopPromise = "resolved"
  /\ ~running
  /\ store.booked

\* C33: stop() on a running instance clears running and cancels the pending
\* sleep, waits for the loop or for 5 seconds, then flushes health and marks
\* the job stopped, and it always completes, even if the loop never exits;
\* stop() on an instance that is not running changes nothing.
C33_StopAlwaysCompletes ==
  /\ [][(stopPc = "idle" /\ stopPc' # "idle") =>
          /\ running /\ ~running'
          /\ ~timerPending' /\ ~sleepTimer'
          /\ (stopPc' = "wait" <=> loopPromise # "null")]_vars
  /\ [][(stopPc = "wait" /\ stopPc' # "wait") =>
          /\ stopPc' = "close"
          /\ store'.totalChecks = health.totalChecks
          /\ store'.lastError = health.lastError]_vars
  /\ [][(stopPc = "close" /\ stopPc' # "close") =>
          (stopPc' = "done" /\ store'.status = "stopped")]_vars
  /\ [][(hist'.stopNoop /\ ~hist.stopNoop) =>
          (~running /\ UNCHANGED <<running, health, store, pc, sleepTimer,
                                  timerPending, loopPromise, stopPc, result,
                                  cyc, blockCount>>)]_vars
  /\ ((stopPc # "idle") ~> (stopPc = "done"))

\* stop() has completed and marked the job stopped while the loop is still
\* suspended in the sleep whose timer stop() cleared.
C33_Witness ==
  /\ stopPc = "done"
  /\ store.status = "stopped"
  /\ pc = "sleep" /\ ~timerPending
  /\ loopPromise = "pending"

\* C34: between the cycles of a run the stored totalChecks is less than 5
\* cycles behind the one in memory, whatever the cycles returned.
C34_StoreLagBelow5 ==
  (fnName = "healthFlush" /\ fnRes # <<>> /\ fnRes[1].pc = "loop") =>
     fnRes[1].total - fnRes[1].stored < 5

\* The status rules of the open-days fetch, for the response r and the
\* outcome out: 401/403, 429, 422, any other non-2xx.
StatusRules(r, out) ==
  /\ r.status \in {401, 403} => out = "SESSION_EXPIRED"
  /\ r.status = 429 => out = "RATE_LIMITED"
  /\ r.status = 422 => out = "CSRF_EXPIRED"
  /\ (r.status \notin 200..299 /\ r.status \notin {401, 403, 422, 429}) =>
        out = "HTTP_ERROR"

C36_BookedStaysBooked ==
  [][store.status = "booked" => store'.status = "booked"]_vars

\* C37: once stop() has been called no bookAppointment call begins: the
\* operation in flight may complete, but no step afterwards enters
\* bookAppointment.
C37_NoBookingAfterStop ==
  [][(stopPc # "idle" /\ pc # "book") => pc' # "book"]_vars

\* C38: every check cycle terminates: in a run that stop() never interrupts,
\* a cycle that has begun (cyc.i > 0: the facility loop is at a facility)
\* eventually returns to the run loop whatever the fetches, logins and
\* bookings come back with, so no facility's fetch is retried without bound.
C38_CycleTerminates ==
  [](stopPc = "idle") => ((cyc.i > 0) ~> (cyc.i = 0))

\* C39: the request that submits the booking form is made at most once per
\* bookAppointment call: with the maxRetries argument of that call, whatever
\* the configured maxRetries, there is one attempt and no backoff sleep, and
\* a transport failure of it is thrown to the caller, tagged
\* retries-exhausted, instead of being sent again.
C39_SubmitAtMostOnce ==
  (fnName = "fetchWithRetry" /\ fnArg[1] = BookSubmitMaxRetries) =>
     /\ retry.attempt <= 1
     /\ retry.sleeps = 0
     /\ retry.pc # "sleep"
     /\ retry.lastError # <<>> =>
          /\ retry.pc = "thrown"
          /\ retry.lastError[1].attempt = 1
          /\ retry.lastError[1].retriesExhausted
          /\ fnRes = <<[ok |-> FALSE, error |-> retry.lastError]>>

\* The submission failed in transport with maxRetries 3 configured: thrown
\* after the one attempt.
C39_Witness ==
  /\ fnName = "fetchWithRetry" /\ fnArg = <<BookSubmitMaxRetries, 3>>
  /\ retry.pc = "thrown"
  /\ retry.attempt = 1 /\ retry.sleeps = 0
  /\ fnRes # <<>> /\ ~fnRes[1].ok

\* The positions at which a request of the instance is in flight: the login
\* page and form, the locations page, the open-days and time-slot fetches,
\* the appointment page and the booking form.
Requests == {"login", "login_submit", "start_locs", "csrf_refresh",
             "checkDates", "checkTimes", "book", "book_submit"}

\* C40: after stop() has returned (and with it stopJob) the stopped instance
\* begins no login, fetch or booking request and writes nothing to the store.
C40_StoppedInstanceIsQuiet ==
  [][stopPc = "done" => /\ (pc' \in Requests => pc' = pc)
                        /\ store' = store]_vars

====
